---- MODULE Spec2Model ----
(***************************************************************************)
(* Verification model of chess-translator: the bold-marker codec, the      *)
(* notation-repair pipeline, the placeholder protection round trip, the    *)
(* bold-marker reconciliation and the line-layout engine.                  *)
(*                                                                         *)
(* Python strings are sequences of one-character strings.  Regular         *)
(* expressions of the source are transcribed as syntax trees and run by a  *)
(* backtracking matcher with Python's priority order (RM below), so every  *)
(* pattern of the model can be read against the pattern of the source.     *)
(***************************************************************************)
EXTENDS Integers, Sequences, FiniteSets, TLC

VARIABLES
    pc,        \* position of the operation under check
    inp,       \* the operation's arguments
    out,       \* the operation's result
    \* locals of rendering.render_marked_segments
    tokpos,    \* number of tokens of the segments consumed so far
    line_runs, \* runs of the pending line
    curw,      \* width of the pending line
    y,         \* baseline of the pending line
    page       \* the lines inserted into the page so far

renderVars == <<tokpos, line_runs, curw, y, page>>
vars == <<pc, inp, out, tokpos, line_runs, curw, y, page>>

\* the render locals while no rendering is going on
RenderIdle ==
    tokpos = 0 /\ line_runs = <<>> /\ curw = 0 /\ y = 0 /\ page = <<>>

(***************************************************************************)
(* Characters and character classes                                        *)
(***************************************************************************)
LowerSeq == <<"a","b","c","d","e","f","g","h","i","j","k","l","m",
              "n","o","p","q","r","s","t","u","v","w","x","y","z">>
UpperSeq == <<"A","B","C","D","E","F","G","H","I","J","K","L","M",
              "N","O","P","Q","R","S","T","U","V","W","X","Y","Z">>
DigitSeq == <<"0","1","2","3","4","5","6","7","8","9">>

Range(s) == {s[x] : x \in DOMAIN s}

\* \p{Ll}, \p{Lu}, \d, \s and \w over the characters of the model
LowerCh == Range(LowerSeq)
UpperCh == Range(UpperSeq)
DigitCh == Range(DigitSeq)
SpaceCh == {" ", "\t", "\n", "\r", "\f"}


\* the set a character class denotes under re.IGNORECASE
CaseFold(cs) ==
    cs \cup {UpperSeq[x] : x \in {z \in 1..26 : LowerSeq[z] \in cs}}
       \cup {LowerSeq[x] : x \in {z \in 1..26 : UpperSeq[z] \in cs}}

(***************************************************************************)
(* String helpers (Python str methods)                                     *)
(***************************************************************************)
\* s[a:b] with 0-based, end-exclusive indices 0 <= a, b; an end past the
\* string is the end of the string
Slice(s, a, b) ==
    IF b <= a \/ Len(s) <= a THEN <<>>
    ELSE SubSeq(s, a + 1, IF b <= Len(s) THEN b ELSE Len(s))

\* s.startswith(p, i)
StartsWithAt(s, p, i) ==
    /\ i + Len(p) <= Len(s)
    /\ \A x \in 1..Len(p) : s[i + x] = p[x]

\* s.find(p, i): the least index >= i where p occurs, or -1
Find(s, p, i) ==
    LET hits == {j \in i..(Len(s) - Len(p)) : StartsWithAt(s, p, j)}
    IN  IF hits = {} THEN -1 ELSE CHOOSE j \in hits : \A h \in hits : j <= h

RECURSIVE Flat(_)
\* concatenation of a sequence of sequences
Flat(ss) == IF ss = <<>> THEN <<>> ELSE Head(ss) \o Flat(Tail(ss))

RECURSIVE Replace(_, _, _)
\* s.replace(old, new) for non-empty old
Replace(s, old, new) ==
    LET j == Find(s, old, 0)
    IN  IF Len(s) < Len(old) \/ j = -1 THEN s
        ELSE Slice(s, 0, j) \o new \o Replace(Slice(s, j + Len(old), Len(s)), old, new)

RECURSIVE Count(_, _)
\* s.count(p) for non-empty p: non-overlapping occurrences
Count(s, p) ==
    LET j == Find(s, p, 0)
    IN  IF j = -1 THEN 0 ELSE 1 + Count(Slice(s, j + Len(p), Len(s)), p)

RECURSIVE LStrip(_, _)
\* s.lstrip(chars)
LStrip(s, cs) == IF s # <<>> /\ Head(s) \in cs THEN LStrip(Tail(s), cs) ELSE s

RECURSIVE RStrip(_, _)
\* s.rstrip(chars)
RStrip(s, cs) ==
    IF s # <<>> /\ s[Len(s)] \in cs THEN RStrip(SubSeq(s, 1, Len(s) - 1), cs) ELSE s

\* s.strip(chars)
Strip(s, cs) == LStrip(RStrip(s, cs), cs)

(***************************************************************************)
(* Regular expressions: syntax trees                                       *)
(***************************************************************************)
Set(cs)           == [k |-> "set", cs |-> cs, neg |-> FALSE]   \* [abc]
NSet(cs)          == [k |-> "set", cs |-> cs, neg |-> TRUE]    \* [^abc]
Lit(cs)           == [k |-> "lit", s |-> cs]                   \* literal text
Cat(rs)           == [k |-> "cat", rs |-> rs]                  \* r1 r2 ...
Alt(rs)           == [k |-> "alt", rs |-> rs]                  \* r1 | r2 | ...
Rep(r, lo, hi)    == [k |-> "rep", r |-> r, lo |-> lo, hi |-> hi, lazy |-> FALSE]
Opt(r)            == Rep(r, 0, 1)                              \* r?
Star(r)           == Rep(r, 0, -1)                             \* r*   (hi = -1: no limit)
Plus(r)           == Rep(r, 1, -1)                             \* r+
LazyStar(r)       == [k |-> "rep", r |-> r, lo |-> 0, hi |-> -1, lazy |-> TRUE]  \* r*?
Grp(n, r)         == [k |-> "grp", n |-> n, r |-> r]           \* capture group n
LookAhead(r)      == [k |-> "la", r |-> r, neg |-> FALSE]      \* (?=r)
NegLookAhead(r)   == [k |-> "la", r |-> r, neg |-> TRUE]       \* (?!r)
LookBehind(r)     == [k |-> "lb", r |-> r, neg |-> FALSE]      \* (?<=r)
NegLookBehind(r)  == [k |-> "lb", r |-> r, neg |-> TRUE]       \* (?<!r)
BOL               == [k |-> "bol"]                             \* ^
EOL               == [k |-> "eol"]                             \* $
WB                == [k |-> "wb"]                              \* \b

\* common atoms
AnyAll == NSet({})              \* . under re.DOTALL
Dg     == Set(DigitCh)          \* \d
Ws     == Set(SpaceCh)          \* \s
NonWs  == NSet(SpaceCh)         \* \S
Ch(c)  == Set({c})

(***************************************************************************)
(* Regular expressions: the matcher                                        *)
(*                                                                         *)
(* RM(r, s, i, g) is the sequence of ways r matches s from offset i        *)
(* (0-based) with the groups g captured so far, in the order Python's      *)
(* backtracking tries them; each way is [e |-> end offset, g |-> groups].  *)
(* The first element is the match the re module reports.                   *)
(***************************************************************************)
IsWordAt(s, x) ==
    x >= 1 /\ x <= Len(s) /\ s[x] \in LowerCh \cup UpperCh \cup DigitCh \cup {"_"}

RECURSIVE RM(_, _, _, _)
RECURSIVE RCat(_, _, _, _)
RECURSIVE RAlt(_, _, _, _, _)
RECURSIVE RRep(_, _, _, _, _, _, _)

\* the ways the elements rs[j..] match one after another, continuing each
\* partial match of ms in order
RCat(rs, j, s, ms) ==
    IF j > Len(rs) \/ ms = <<>> THEN ms
    ELSE RCat(rs, j + 1, s,
              Flat([x \in 1..Len(ms) |-> RM(rs[j], s, ms[x].e, ms[x].g)]))

\* the alternatives rs[j..], first alternative first
RAlt(rs, j, s, i, g) ==
    IF j > Len(rs) THEN <<>>
    ELSE RM(rs[j], s, i, g) \o RAlt(rs, j + 1, s, i, g)

\* lo..hi repetitions of r (hi = -1: unbounded); an iteration must consume
\* text to be repeated
RRep(r, lo, hi, lazy, s, i, g) ==
    LET More(step) == Flat([x \in 1..Len(step) |->
                              RRep(r, IF lo > 0 THEN lo - 1 ELSE 0,
                                      IF hi > 0 THEN hi - 1 ELSE hi,
                                      lazy, s, step[x].e, step[x].g)])
        more == More(IF hi = 0 THEN <<>>
                     ELSE SelectSeq(RM(r, s, i, g), LAMBDA m : m.e > i))
        stop == IF lo = 0 THEN <<[e |-> i, g |-> g]>> ELSE <<>>
    IN  IF lazy THEN stop \o more ELSE more \o stop

RM(r, s, i, g) ==
    CASE r.k = "set" ->
            IF i < Len(s) /\ ((s[i + 1] \in r.cs) # r.neg)
            THEN <<[e |-> i + 1, g |-> g]>> ELSE <<>>
      [] r.k = "lit" ->
            IF StartsWithAt(s, r.s, i) THEN <<[e |-> i + Len(r.s), g |-> g]>> ELSE <<>>
      [] r.k = "cat" -> RCat(r.rs, 1, s, <<[e |-> i, g |-> g]>>)
      [] r.k = "alt" -> RAlt(r.rs, 1, s, i, g)
      [] r.k = "rep" -> RRep(r.r, r.lo, r.hi, r.lazy, s, i, g)
      [] r.k = "grp" ->
            LET Captured(ms) ==
                    [x \in 1..Len(ms) |->
                        [e |-> ms[x].e, g |-> (r.n :> <<i, ms[x].e>>) @@ ms[x].g]]
            IN  Captured(RM(r.r, s, i, g))
      [] r.k = "la" ->
            IF (RM(r.r, s, i, g) # <<>>) # r.neg THEN <<[e |-> i, g |-> g]>> ELSE <<>>
      [] r.k = "lb" ->
            IF (\E j \in 0..i : \E m \in Range(RM(r.r, s, j, g)) : m.e = i) # r.neg
            THEN <<[e |-> i, g |-> g]>> ELSE <<>>
      [] r.k = "bol" -> IF i = 0 THEN <<[e |-> i, g |-> g]>> ELSE <<>>
      [] r.k = "eol" ->
            \* $ matches at the end and before a newline that ends the string
            IF i = Len(s) \/ (i = Len(s) - 1 /\ s[Len(s)] = "\n")
            THEN <<[e |-> i, g |-> g]>> ELSE <<>>
      [] r.k = "wb" ->
            IF IsWordAt(s, i) # IsWordAt(s, i + 1) THEN <<[e |-> i, g |-> g]>> ELSE <<>>

NoMatch  == [st |-> -1, e |-> -1, g |-> <<>>]

\* re.match(r, s) from offset i: the match, or NoMatch
MatchAt(r, s, i) ==
    LET First(ms) == IF ms = <<>> THEN NoMatch
                     ELSE [st |-> i, e |-> ms[1].e, g |-> ms[1].g]
    IN  First(RM(r, s, i, <<>>))

RECURSIVE SearchFrom(_, _, _)
\* re.search(r, s, pos=i): the leftmost match starting at i or later
SearchFrom(r, s, i) ==
    IF i > Len(s) THEN NoMatch
    ELSE LET OrNext(m) == IF m.st # -1 THEN m ELSE SearchFrom(r, s, i + 1)
         IN  OrNext(MatchAt(r, s, i))

\* re.fullmatch(r, s) is not None
FullMatch(r, s) == \E m \in Range(RM(r, s, 0, <<>>)) : m.e = Len(s)

\* m.group(n) of a match m in s ("" when the group did not take part)
GroupText(s, m, n) ==
    IF n = 0 THEN Slice(s, m.st, m.e)
    ELSE IF n \in DOMAIN m.g THEN Slice(s, m.g[n][1], m.g[n][2]) ELSE <<>>

RECURSIVE FindIter(_, _, _)
\* re.finditer(r, s): the non-overlapping matches, left to right
FindIter(r, s, i) ==
    LET Rest(m) == IF m.st = -1 THEN <<>>
                   ELSE <<m>> \o FindIter(r, s, IF m.e > m.st THEN m.e ELSE m.e + 1)
    IN  Rest(SearchFrom(r, s, i))

\* a replacement template is a sequence of items: G(n) is \n, L(cs) literal text
G(n)  == [n |-> n, c |-> <<>>]
L(cs) == [n |-> -1, c |-> cs]

\* m.expand(template)
Expand(tpl, s, m) ==
    Flat([x \in 1..Len(tpl) |->
            IF tpl[x].n = -1 THEN tpl[x].c ELSE GroupText(s, m, tpl[x].n)])

RECURSIVE SubFrom(_, _, _, _, _)
\* re.sub(r, template, s): cur is the offset up to which s has been copied
SubFrom(r, tpl, s, i, cur) ==
    LET Rest(m) == IF m.st = -1 THEN Slice(s, cur, Len(s))
                   ELSE Slice(s, cur, m.st) \o Expand(tpl, s, m)
                        \o SubFrom(r, tpl, s, IF m.e > m.st THEN m.e ELSE m.e + 1, m.e)
    IN  IF i > Len(s) THEN Slice(s, cur, Len(s)) ELSE Rest(SearchFrom(r, s, i))

Sub(r, tpl, s) == SubFrom(r, tpl, s, 0, 0)

(***************************************************************************)
(* config.py: the marker delimiters                                        *)
(***************************************************************************)
B_START == <<"[", "[", "B", "]", "]">>
B_END   == <<"[", "[", "/", "B", "]", "]">>

(***************************************************************************)
(* MarkerCodec                                                             *)
(***************************************************************************)
RECURSIVE RunsToMarkedFrom(_, _)
RunsToMarkedFrom(runs, x) ==
    IF x > Len(runs) THEN <<>>
    ELSE (IF runs[x].bold THEN B_START \o runs[x].text \o B_END ELSE runs[x].text)
         \o RunsToMarkedFrom(runs, x + 1)

\* translation_core._runs_to_marked_text
_runs_to_marked_text(runs) == RunsToMarkedFrom(runs, 1)

RECURSIVE ScanSegments_shortSkip(_, _)
\* ScanSegments resuming after a bold span as if the end delimiter were as
\* long as the start delimiter
ScanSegments_shortSkip(t, i) ==
    IF i >= Len(t) THEN <<>>
    ELSE IF StartsWithAt(t, B_START, i)
         THEN LET i2 == i + Len(B_START)
                  j  == Find(t, B_END, i2)
              IN  IF j = -1
                  THEN <<[text |-> Slice(t, i2, Len(t)), bold |-> TRUE]>>
                  ELSE <<[text |-> Slice(t, i2, j), bold |-> TRUE]>>
                       \o ScanSegments_shortSkip(t, j + Len(B_START))
         ELSE LET j == Find(t, B_START, i)
              IN  IF j = -1
                  THEN <<[text |-> Slice(t, i, Len(t)), bold |-> FALSE]>>
                  ELSE <<[text |-> Slice(t, i, j), bold |-> FALSE]>>
                       \o ScanSegments_shortSkip(t, j)

RECURSIVE ScanSegments_unclosedRegular(_, _)
\* ScanSegments taking the text after an unclosed start delimiter as regular
ScanSegments_unclosedRegular(t, i) ==
    IF i >= Len(t) THEN <<>>
    ELSE IF StartsWithAt(t, B_START, i)
         THEN LET i2 == i + Len(B_START)
                  j  == Find(t, B_END, i2)
              IN  IF j = -1
                  THEN <<[text |-> Slice(t, i2, Len(t)), bold |-> FALSE]>>
                  ELSE <<[text |-> Slice(t, i2, j), bold |-> TRUE]>>
                       \o ScanSegments_unclosedRegular(t, j + Len(B_END))
         ELSE LET j == Find(t, B_START, i)
              IN  IF j = -1
                  THEN <<[text |-> Slice(t, i, Len(t)), bold |-> FALSE]>>
                  ELSE <<[text |-> Slice(t, i, j), bold |-> FALSE]>>
                       \o ScanSegments_unclosedRegular(t, j)

RECURSIVE ScanSegments(_, _)
\* the scanning loop of parse_marked_segments from offset i
ScanSegments(t, i) ==
    IF i >= Len(t) THEN <<>>
    ELSE IF StartsWithAt(t, B_START, i)
         THEN LET i2 == i + Len(B_START)
                  j  == Find(t, B_END, i2)
              IN  IF j = -1
                  THEN <<[text |-> Slice(t, i2, Len(t)), bold |-> TRUE]>>
                  ELSE <<[text |-> Slice(t, i2, j), bold |-> TRUE]>>
                       \o ScanSegments(t, j + Len(B_END))
         ELSE LET j == Find(t, B_START, i)
              IN  IF j = -1
                  THEN <<[text |-> Slice(t, i, Len(t)), bold |-> FALSE]>>
                  ELSE <<[text |-> Slice(t, i, j), bold |-> FALSE]>>
                       \o ScanSegments(t, j)

\* the merge loop without the joining of neighbours: empty segments are
\* dropped, every other segment is kept as it is
MergeSegments_noJoin(segs, merged) ==
    merged \o SelectSeq(segs, LAMBDA sg : sg.text # <<>>)

RECURSIVE MergeSegments(_, _)
\* the merge loop of parse_marked_segments: drop empty segments, join
\* neighbours of the same boldness
MergeSegments(segs, merged) ==
    IF segs = <<>> THEN merged
    ELSE LET sg == Head(segs)
         IN  IF sg.text = <<>> THEN MergeSegments(Tail(segs), merged)
             ELSE IF merged # <<>> /\ merged[Len(merged)].bold = sg.bold
                  THEN MergeSegments(Tail(segs),
                         [merged EXCEPT ![Len(merged)].text = @ \o sg.text])
                  ELSE MergeSegments(Tail(segs), Append(merged, sg))

\* rendering.parse_marked_segments
parse_marked_segments(marked_text) ==
    IF marked_text = <<>> THEN <<>>
    ELSE MergeSegments(ScanSegments(marked_text, 0), <<>>)

(***************************************************************************)
(* Specification SpecCodec: runs are encoded for the translator and the    *)
(* text that comes back is decoded.  A behaviour starts either from a run  *)
(* list (encode, then decode) or from an arbitrary marked text as the      *)
(* translator may return it (decode only).                                 *)
(***************************************************************************)
MaxRuns   == 2      \* longest run list
MaxPieces == 4      \* longest marked text, in pieces

\* run texts: empty, plain, and with whole or partial delimiters
CodecTexts ==
    { <<>>, <<"a">>, <<"b"," ","c">>, <<"[">>, <<"]","]">>, <<"[","[","B">>, <<"[","[","/","B">>,
      <<"[","[","B","]","]">>, <<"[","[","/","B","]","]">>, <<"a","[","[","B","]","]">>, <<"[","[","/","B","]","]","b">> }

\* the run list with the given texts whose flags alternate from firstBold
AltRuns(ts, firstBold) ==
    [x \in 1..Len(ts) |-> [text |-> ts[x], bold |-> ((x % 2 = 1) = firstBold)]]

\* run lists in which no two adjacent runs share the bold flag
RunLists ==
    UNION {{AltRuns(ts, b) : ts \in [1..n -> CodecTexts], b \in BOOLEAN} : n \in 0..MaxRuns}

\* marked texts as a translator may return them: delimiters dropped,
\* duplicated, unbalanced
MarkedTexts ==
    UNION {{Flat(ps) : ps \in [1..n -> { <<"a">>, <<" ","b">>, <<"[">>, <<"\n">>,
                                          B_START, B_END }]} : n \in 0..MaxPieces}

CodecInit ==
    /\ RenderIdle
    /\ \/ /\ pc = "runs"
          /\ inp \in [src : {"runs"}, runs : RunLists]
          /\ out = [marked |-> <<>>, segs |-> <<>>]
       \/ /\ pc = "marked"
          /\ inp = [src |-> "text", runs |-> <<>>]
          /\ out \in [marked : MarkedTexts, segs : {<<>>}]

\* build_marked_text_for_translation: the runs become one marked string
Encode ==
    /\ pc = "runs"
    /\ out' = [out EXCEPT !.marked = _runs_to_marked_text(inp.runs)]
    /\ pc' = "marked"
    /\ UNCHANGED <<inp, renderVars>>

\* render_translated_page decodes the marked string into segments
Decode ==
    /\ pc = "marked"
    /\ out' = [out EXCEPT !.segs = parse_marked_segments(out.marked)]
    /\ pc' = "decoded"
    /\ UNCHANGED <<inp, renderVars>>

CodecNext == Encode \/ Decode

SpecCodec == CodecInit /\ [][CodecNext]_vars

\* substring test
Contains(s, p) == Find(s, p, 0) # -1

\* runs a marked string can carry: no empty text, no start delimiter inside
\* a regular run, no end delimiter inside a bold run
EncodableRuns(runs) ==
    \A x \in 1..Len(runs) :
        /\ runs[x].text # <<>>
        /\ IF runs[x].bold THEN ~Contains(runs[x].text, B_END)
                           ELSE ~Contains(runs[x].text, B_START)

\* C1 as stated: for every run list with alternating bold flags,
\* decoding the encoded string returns the runs.
C1_RoundTripAllRuns ==
    (pc = "decoded" /\ inp.src = "runs") => out.segs = inp.runs

\* C1 amended: for every run list with alternating bold flags in which no run
\* text is empty, no regular run contains the start delimiter and no bold run
\* contains the end delimiter, decoding the encoded string returns the same
\* ordered (text, bold) pairs.
C1_RoundTripEncodable ==
    (pc = "decoded" /\ inp.src = "runs" /\ EncodableRuns(inp.runs))
        => out.segs = inp.runs

C1_Witness ==
    /\ pc = "decoded" /\ inp.src = "runs"
    /\ Len(inp.runs) = 2 /\ EncodableRuns(inp.runs)
    /\ inp.runs[1].bold /\ inp.runs[1].text = <<"[","[","B">>
    /\ out.segs = inp.runs

\* the offset where the scan of t meets a start delimiter that is never
\* closed: the first start delimiter at or after the end of the last end
\* delimiter, when no end delimiter follows it (-1 if there is none)
UnclosedStart(t) ==
    LET ends   == {j \in 0..Len(t) : StartsWithAt(t, B_END, j)}
        starts == {j \in 0..Len(t) : StartsWithAt(t, B_START, j)}
        open   == {j \in starts : \A e \in ends : e < j}
    IN  IF open = {} THEN -1 ELSE CHOOSE j \in open : \A h \in open : j <= h

IsSegmentList(segs) ==
    /\ DOMAIN segs = 1..Len(segs)
    /\ \A x \in 1..Len(segs) :
          /\ DOMAIN segs[x] = {"text", "bold"}
          /\ segs[x].bold \in BOOLEAN
          /\ Len(segs[x].text) <= Len(out.marked)

IsSuffix(p, s) == Len(p) <= Len(s) /\ Slice(s, Len(s) - Len(p), Len(s)) = p

\* C2: for every input string, with dropped, duplicated or unbalanced
\* delimiters, decoding returns a segment list; when a start delimiter has no
\* later end delimiter, the text after it up to the end of the string lies in
\* one bold segment, the last one.
C2_DecodeTotal ==
    pc = "decoded" =>
        /\ IsSegmentList(out.segs)
        /\ LET q    == UnclosedStart(out.marked)
               tail == Slice(out.marked, q + Len(B_START), Len(out.marked))
           IN  (q # -1 /\ tail # <<>>) =>
                  /\ out.segs # <<>>
                  /\ out.segs[Len(out.segs)].bold
                  /\ IsSuffix(tail, out.segs[Len(out.segs)].text)

C2_Witness ==
    /\ pc = "decoded" /\ inp.src = "text"
    /\ out.marked = <<"a","[","[","/","B","]","]","[","[","B","]","]"," ","b">> 
    /\ out.segs = << [text |-> <<"a","[","[","/","B","]","]">>, bold |-> FALSE], [text |-> <<" ","b">>, bold |-> TRUE] >>

(***************************************************************************)
(* TextFitEngine: rendering.render_marked_segments                         *)
(*                                                                         *)
(* Units.  Font sizes are integers in tenths of a point.  Widths are in    *)
(* hundredths of a point, so that the metrics fallback len * size * 0.6    *)
(* is the integer len * size * 6; vertical positions are in thousandths,   *)
(* so that the line height max(size) * 1.18 is the integer max * 118.      *)
(***************************************************************************)
BOLD_SCALE_PCT == 106       \* BOLD_SCALE_DEFAULT = 1.06, in percent

Max(a, b) == IF a >= b THEN a ELSE b

RECURSIVE SplitOn(_, _, _)
\* s.split(c) for a one-character separator; acc is the part being read
SplitOn(s, c, acc) ==
    IF s = <<>> THEN <<acc>>
    ELSE IF Head(s) = c THEN <<acc>> \o SplitOn(Tail(s), c, <<>>)
         ELSE SplitOn(Tail(s), c, Append(acc, Head(s)))

RECURSIVE Words(_, _)
\* s.split(): the maximal runs of non-whitespace; acc is the word being read
Words(s, acc) ==
    IF s = <<>> THEN (IF acc = <<>> THEN <<>> ELSE <<acc>>)
    ELSE IF Head(s) \in SpaceCh
         THEN (IF acc = <<>> THEN <<>> ELSE <<acc>>) \o Words(Tail(s), <<>>)
         ELSE Words(Tail(s), Append(acc, Head(s)))

\* the tokens of one segment in the order of the loops of
\* render_marked_segments: the words of each part, and a hard break after
\* every part but the last
SegmentTokens(seg) ==
    LET parts == SplitOn(seg.text, "\n", <<>>)
    IN  Flat([i \in 1..Len(parts) |->
            LET ws == Words(parts[i], <<>>)
            IN  [x \in 1..Len(ws) |-> [brk |-> FALSE, text |-> ws[x], bold |-> seg.bold]]
                \o (IF i < Len(parts)
                    THEN <<[brk |-> TRUE, text |-> <<>>, bold |-> seg.bold]>>
                    ELSE <<>>)])

Tokens(segments) == Flat([x \in 1..Len(segments) |-> SegmentTokens(segments[x])])

\* metrics.text_width_fitz, by its fallback len(text) * fontsize * 0.6
text_width_fitz(text, fontsize) == Len(text) * fontsize * 6

\* render_marked_segments.w
W(text, is_bold) ==
    text_width_fitz(text, IF is_bold THEN inp.bold_size ELSE inp.regular_size)

line_height == Max(inp.regular_size, inp.bold_size) * 118

\* the test for vertical space with a tolerance of four line heights
OutOfVerticalSpace_fourHeights == y + line_height > inp.rect.y1 + line_height * 4

\* y + line_height > rect.y1 + line_height * 2.0
OutOfVerticalSpace == y + line_height > inp.rect.y1 + line_height * 2

\* the test "curw > 0 and curw + add_w > rect.width" with the pending width
\* forgotten
Overflows_ignoresPending(add_w) == curw > 0 /\ add_w > inp.rect.width

\* append_token: curw > 0 and curw + add_w > rect.width
Overflows(add_w) == curw > 0 /\ curw + add_w > inp.rect.width

\* append_token: leading_space + tok
Candidate(tok) ==
    (IF line_runs # <<>> /\ line_runs[Len(line_runs)].text[Len(line_runs[Len(line_runs)].text)] # "\n"
     THEN <<" ">> ELSE <<>>) \o tok

\* the end of append_token: the candidate joins the last run of runs when
\* the boldness agrees, and else starts a run
AddToLine(runs, cand, is_bold) ==
    IF runs # <<>> /\ runs[Len(runs)].bold = is_bold
    THEN [runs EXCEPT ![Len(runs)].text = @ \o cand]
    ELSE Append(runs, [bold |-> is_bold, text |-> cand])

\* flush_line on a non-empty pending line: its runs are inserted at the
\* baseline y
FlushedPage == Append(page, [runs |-> line_runs, y |-> y])

MaxSegs == 2        \* longest segment list rendered

\* the segment texts rendered
RenderTexts == { <<"a","b">>, <<"a","b","c","d","e","f","g","h">>, <<"a","b"," ","c","d">>, <<"a","\n","b">>, <<"a","b","\n">>,
                 <<"a","b","c","d","e","f","g","h"," ","a">> }

RenderInit ==
    /\ pc = "call"
    /\ inp \in [segments : UNION {{AltRuns(ts, b) : ts \in [1..n -> RenderTexts],
                                                   b \in BOOLEAN} : n \in 0..MaxSegs},
                rect : [width : {2000, 4000}, y0 : {0}, y1 : {1000, 30000}],
                regular_size : {100, 150},
                bold_size : {106, 159}]
    /\ inp.bold_size = (inp.regular_size * BOLD_SCALE_PCT) \div 100
    /\ out = [status |-> "idle", dropped |-> <<>>]
    /\ RenderIdle

NextToken == Tokens(inp.segments)[tokpos + 1]

\* render_marked_segments up to its main loop
StartRender ==
    /\ pc = "call"
    /\ IF inp.segments = <<>>
       THEN /\ pc' = "done"
            /\ out' = [out EXCEPT !.status = "finished"]
            /\ UNCHANGED y
       ELSE /\ pc' = "loop"
            /\ out' = [out EXCEPT !.status = "running"]
            /\ y' = inp.rect.y0 + Max(inp.regular_size, inp.bold_size) * 100
    /\ UNCHANGED <<inp, tokpos, line_runs, curw, page>>

\* append_token: the word fits on the pending line (or the line is empty)
TokenFits ==
    /\ pc = "loop" /\ tokpos < Len(Tokens(inp.segments))
    /\ ~NextToken.brk
    /\ LET cand == Candidate(NextToken.text)
           add_w == W(cand, NextToken.bold)
       IN  /\ ~Overflows(add_w)
           /\ line_runs' = AddToLine(line_runs, cand, NextToken.bold)
           /\ curw' = curw + add_w
    /\ tokpos' = tokpos + 1
    /\ UNCHANGED <<pc, inp, out, y, page>>

\* append_token: the word does not fit; the pending line is flushed and the
\* word starts the next line
TokenWraps ==
    /\ pc = "loop" /\ tokpos < Len(Tokens(inp.segments))
    /\ ~NextToken.brk
    /\ Overflows(W(Candidate(NextToken.text), NextToken.bold))
    /\ ~OutOfVerticalSpace
    /\ page' = FlushedPage
    /\ y' = y + line_height
    /\ line_runs' = AddToLine(<<>>, NextToken.text, NextToken.bold)
    /\ curw' = 0 + W(NextToken.text, NextToken.bold)
    /\ tokpos' = tokpos + 1
    /\ UNCHANGED <<pc, inp, out>>

\* append_token: the word does not fit and there is no room for a further
\* line; the word is dropped (logged) and the loop goes on
TokenDropped ==
    /\ pc = "loop" /\ tokpos < Len(Tokens(inp.segments))
    /\ ~NextToken.brk
    /\ Overflows(W(Candidate(NextToken.text), NextToken.bold))
    /\ OutOfVerticalSpace
    /\ out' = [out EXCEPT !.dropped = Append(@, tokpos + 1)]
    /\ tokpos' = tokpos + 1
    /\ UNCHANGED <<pc, inp, line_runs, curw, y, page>>

\* a newline inside a segment with room left: flush_line
HardBreak ==
    /\ pc = "loop" /\ tokpos < Len(Tokens(inp.segments))
    /\ NextToken.brk
    /\ ~OutOfVerticalSpace
    /\ IF line_runs = <<>>
       THEN UNCHANGED <<page, y, line_runs, curw>>
       ELSE /\ page' = FlushedPage
            /\ y' = y + line_height
            /\ line_runs' = <<>>
            /\ curw' = 0
    /\ tokpos' = tokpos + 1
    /\ UNCHANGED <<pc, inp, out>>

\* a newline inside a segment with no room left: the function returns
HardBreakTruncates ==
    /\ pc = "loop" /\ tokpos < Len(Tokens(inp.segments))
    /\ NextToken.brk
    /\ OutOfVerticalSpace
    /\ pc' = "done"
    /\ out' = [out EXCEPT !.status = "truncated"]
    /\ UNCHANGED <<inp, tokpos, line_runs, curw, y, page>>

\* FinishRender without the tolerance of two line heights: the pending line
\* is flushed only when its baseline is inside the rectangle
FinishRender_strictBottom ==
    /\ pc = "loop" /\ tokpos = Len(Tokens(inp.segments))
    /\ IF line_runs # <<>> /\ y <= inp.rect.y1
       THEN /\ page' = FlushedPage
            /\ y' = y + line_height
            /\ line_runs' = <<>>
            /\ curw' = 0
       ELSE UNCHANGED <<page, y, line_runs, curw>>
    /\ pc' = "done"
    /\ out' = [out EXCEPT !.status = "finished"]
    /\ UNCHANGED <<inp, tokpos>>

\* after the loop: the pending line is flushed when it is within two line
\* heights of the bottom, and else only logged
FinishRender ==
    /\ pc = "loop" /\ tokpos = Len(Tokens(inp.segments))
    /\ IF line_runs # <<>> /\ y <= inp.rect.y1 + line_height * 2
       THEN /\ page' = FlushedPage
            /\ y' = y + line_height
            /\ line_runs' = <<>>
            /\ curw' = 0
       ELSE UNCHANGED <<page, y, line_runs, curw>>
    /\ pc' = "done"
    /\ out' = [out EXCEPT !.status = "finished"]
    /\ UNCHANGED <<inp, tokpos>>

RenderNext ==
    \/ StartRender
    \/ TokenFits
    \/ TokenWraps
    \/ TokenDropped
    \/ HardBreak
    \/ HardBreakTruncates
    \/ FinishRender

SpecRender == RenderInit /\ [][RenderNext]_vars

RECURSIVE SumWidths(_)
\* the measured width of a line: the sum of its runs' widths, each at the
\* size of its own style
SumWidths(runs) ==
    IF runs = <<>> THEN 0
    ELSE W(Head(runs).text, Head(runs).bold) + SumWidths(Tail(runs))

\* a line that holds one word and nothing else
SingleWordLine(runs) ==
    /\ Len(runs) = 1
    /\ \A x \in 1..Len(runs[1].text) : runs[1].text[x] \notin SpaceCh

\* C9 as stated: no emitted line is wider than the rectangle.
C9_NoLineWiderThanRect ==
    \A l \in 1..Len(page) : SumWidths(page[l].runs) <= inp.rect.width

\* C9 amended: an emitted line is wider than the rectangle only when it
\* consists of one single word that is itself wider than the rectangle.
C9_OnlySingleWordOverflows ==
    \A l \in 1..Len(page) :
        SumWidths(page[l].runs) > inp.rect.width => SingleWordLine(page[l].runs)

C9_Witness ==
    /\ pc = "done" /\ Len(page) = 3
    /\ SumWidths(page[1].runs) <= inp.rect.width
    /\ SumWidths(page[2].runs) <= inp.rect.width
    /\ SumWidths(page[3].runs) > inp.rect.width
    /\ SingleWordLine(page[3].runs)

\* the words of the input that are wider than the rectangle
WideWords ==
    {t \in Range(Tokens(inp.segments)) : ~t.brk /\ W(t.text, t.bold) > inp.rect.width}

\* C10: a word wider than the rectangle is never split and never shares a
\* line: every emitted line that holds it holds that word alone, and a
\* rendering of that single word ends with the word emitted as the only line.
C10_WideWordAloneOnLine ==
    /\ \A l \in 1..Len(page) : \A t \in WideWords :
          (\E x \in 1..Len(page[l].runs) :
               page[l].runs[x].bold = t.bold /\ Contains(page[l].runs[x].text, t.text))
            => page[l].runs = <<[bold |-> t.bold, text |-> t.text]>>
    /\ (pc = "done" /\ Len(Tokens(inp.segments)) = 1 /\ WideWords # {})
          => /\ Len(page) = 1
             /\ page[1].runs = <<[bold |-> inp.segments[1].bold, text |-> inp.segments[1].text]>>
             /\ out.status = "finished"

C10_Witness ==
    /\ pc = "done" /\ Len(Tokens(inp.segments)) = 1 /\ WideWords # {}
    /\ Len(page) = 1
    /\ SumWidths(page[1].runs) > inp.rect.width

\* the words of the lines inserted into the page, in order
EmittedWords ==
    Flat([l \in 1..Len(page) |->
            Words(Flat([x \in 1..Len(page[l].runs) |-> page[l].runs[x].text]), <<>>)])

\* the number of words among the first n tokens of the segments
WordsBefore(n) == Cardinality({x \in 1..n : ~Tokens(inp.segments)[x].brk})

\* C11: once the vertical limit is reached (a word that needs a line break
\* is dropped because the next line would start more than two line heights
\* past the rectangle bottom), no token that comes later in the segment
\* order is emitted: the page holds words that precede the first dropped
\* token only.
C11_ExhaustedForGood ==
    out.dropped # <<>> => Len(EmittedWords) <= WordsBefore(out.dropped[1] - 1)

(***************************************************************************)
(* chess_translator/protect.py: placeholder protection of chess notation   *)
(***************************************************************************)
PieceCh == {"K", "Q", "R", "B", "N"}
FileCh  == {"a", "b", "c", "d", "e", "f", "g", "h"}
RankCh  == {"1", "2", "3", "4", "5", "6", "7", "8"}

\* the matches of r in text as (start, end, notation) elements
ElementsOf(r, text) ==
    LET Elements(ms) == [x \in 1..Len(ms) |-> [start |-> ms[x].st, end |-> ms[x].e,
                                                notation |-> GroupText(text, ms[x], 0)]]
    IN  Elements(FindIter(r, text, 0))

\* the filter on piece and pawn moves: a bare square, a capture, a piece
\* letter or a suffix
KeepMove(mv) ==
    \/ MatchAt(Cat(<<BOL, Set(FileCh), Set(RankCh), EOL>>), mv, 0).st # -1     \* ^[a-h][1-8]$
    \/ "x" \in Range(mv)
    \/ Range(mv) \cap PieceCh # {}
    \/ Range(mv) \cap {"+", "#", "!", "?"} # {}

RECURSIVE InsertByStart(_, _)
\* insertion of e into es, sorted by start, after the elements with the same
\* start (list.sort is stable)
InsertByStart(es, e) ==
    IF es = <<>> THEN <<e>>
    ELSE IF Head(es).start <= e.start THEN <<Head(es)>> \o InsertByStart(Tail(es), e)
         ELSE <<e>> \o es

RECURSIVE SortByStart(_, _)
\* elements.sort(key=lambda x: x[0])
SortByStart(es, acc) ==
    IF es = <<>> THEN acc ELSE SortByStart(Tail(es), InsertByStart(acc, Head(es)))

RECURSIVE FilterOverlaps(_, _)
\* the loop that keeps an element only when it starts at or after the end of
\* the last kept one
FilterOverlaps(es, last_end) ==
    IF es = <<>> THEN <<>>
    ELSE IF Head(es).start >= last_end
         THEN <<Head(es)>> \o FilterOverlaps(Tail(es), Head(es).end)
         ELSE FilterOverlaps(Tail(es), last_end)

\* protect.extract_chess_elements (the list of elements)
extract_chess_elements(text) ==
    FilterOverlaps(
        SortByStart(
            \* \b(\d+)\s*\.\s*(?:\.\.)?
            ElementsOf(Cat(<<WB, Grp(1, Plus(Dg)), Star(Ws), Ch("."), Star(Ws),
                             Opt(Lit(<<".", ".">>))>>), text)
            \* \b([KQRBN]?[a-h]?[1-8]?x?[a-h][1-8][+#!?]*)
            \o SelectSeq(ElementsOf(
                    Cat(<<WB, Grp(1, Cat(<<Opt(Set(PieceCh)), Opt(Set(FileCh)),
                                           Opt(Set(RankCh)), Opt(Ch("x")), Set(FileCh),
                                           Set(RankCh), Star(Set({"+", "#", "!", "?"}))>>))>>),
                    text),
                 LAMBDA e : KeepMove(e.notation))
            \* \bO-O(?:-O)?\b
            \o ElementsOf(Cat(<<WB, Lit(<<"O", "-", "O">>), Opt(Lit(<<"-", "O">>)), WB>>),
                          text)
            \* \b(?:1-0|0-1|1/2-1/2)\b
            \o ElementsOf(Cat(<<WB, Alt(<<Lit(<<"1", "-", "0">>), Lit(<<"0", "-", "1">>),
                                          Lit(<<"1", "/", "2", "-", "1", "/", "2">>)>>),
                                WB>>), text),
            <<>>),
        -1)

RECURSIVE IntToStr(_)
\* str(n) for n >= 0
IntToStr(n) ==
    IF n < 10 THEN <<DigitSeq[n + 1]>>
    ELSE IntToStr(n \div 10) \o <<DigitSeq[(n % 10) + 1]>>

\* "<<<CHESS_{i}>>>"
PlaceholderCore(i) == <<"<","<","<","C","H","E","S","S","_">> \o IntToStr(i) \o <<">",">",">">>

\* the placeholder written for an element whose left neighbour does not end
\* in whitespace never gets its own leading space stripped, and likewise on
\* the right
PlaceholderFor(protected, e, id) ==
    LET left_has_space  == e.start > 0 /\ protected[e.start] \in SpaceCh
        right_has_space == e.end < Len(protected) /\ protected[e.end + 1] \in SpaceCh
    IN  (IF left_has_space THEN <<>> ELSE <<" ">>)
        \o PlaceholderCore(id)
        \o (IF right_has_space THEN <<>> ELSE <<" ">>)

RECURSIVE ProtectFrom(_, _, _)
\* the loop of protect_chess_notation over reversed(elements): k elements
\* are left, the k-th is replaced next
ProtectFrom(protected, elements, k) ==
    IF k = 0 THEN protected
    ELSE LET e == elements[k]
         IN  ProtectFrom(Slice(protected, 0, e.start)
                           \o PlaceholderFor(protected, e, k - 1)
                           \o Slice(protected, e.end, Len(protected)),
                         elements, k - 1)

\* protect.protect_chess_notation: (protected, placeholders)
protect_chess_notation(text) ==
    LET Protected(elements) ==
            [protected    |-> ProtectFrom(text, elements, Len(elements)),
             placeholders |-> [x \in 1..Len(elements) |-> elements[x].notation]]
    IN  Protected(extract_chess_elements(text))

RECURSIVE RestoreFrom(_, _, _)
\* the loop of restore_chess_notation from placeholder i (0-based)
RestoreFrom(result, placeholders, i) ==
    IF i >= Len(placeholders) THEN result
    ELSE LET notation == placeholders[i + 1]
             r1 == Replace(result, PlaceholderCore(i), notation)
             r2 == Replace(r1, <<"§">> \o <<"C","H","E","S","S">> \o IntToStr(i) \o <<"§">>, notation)
             r3 == Replace(r2, <<"[","C","H","E","S","S","_">> \o IntToStr(i) \o <<"_","P","R","O","T","E","C","T","]">>, notation)
         IN  RestoreFrom(r3, placeholders, i + 1)

\* protect.restore_chess_notation
restore_chess_notation(translated, placeholders) == RestoreFrom(translated, placeholders, 0)

(***************************************************************************)
(* Specification SpecProtect: a text is protected, and the protected text  *)
(* is restored (GPT4MiniTranslator.translate_chunks, with a translator     *)
(* that returns the protected text unchanged)                              *)
(***************************************************************************)
MaxProtPieces == 3      \* longest protected text, in pieces

\* texts of at most MaxProtPieces pieces
ProtectTexts ==
    UNION {{Flat(ps) : ps \in [1..n -> { <<"e","4">>, <<"N","f","3">>, <<"1",".">>, <<" ">>,
                                          <<"a">>, <<"(">>, <<"O","-","O">>, <<"1","-","0">> }]}
           : n \in 0..MaxProtPieces}

ProtectInit ==
    /\ pc = "text"
    /\ inp \in [text : ProtectTexts]
    /\ out = [protected |-> <<>>, placeholders |-> <<>>, restored |-> <<>>]
    /\ RenderIdle

\* protected_text, placeholders = protect_chess_notation(text)
Protect ==
    /\ pc = "text"
    /\ LET r == protect_chess_notation(inp.text)
       IN  out' = [out EXCEPT !.protected = r.protected, !.placeholders = r.placeholders]
    /\ pc' = "protected"
    /\ UNCHANGED <<inp, renderVars>>

\* candidate = restore_chess_notation(candidate, placeholders)
Restore ==
    /\ pc = "protected"
    /\ out' = [out EXCEPT !.restored = restore_chess_notation(out.protected, out.placeholders)]
    /\ pc' = "restored"
    /\ UNCHANGED <<inp, renderVars>>

ProtectNext == Protect \/ Restore

SpecProtect == ProtectInit /\ [][ProtectNext]_vars

\* C4: for every text containing chess notation, restoring the placeholders
\* of the protected text gives back the original text exactly, whitespace
\* around the notation included.
C4_ProtectRoundTrip ==
    (pc = "restored" /\ out.placeholders # <<>>) => out.restored = inp.text

(***************************************************************************)
(* translation_core.py: notation tokens                                    *)
(***************************************************************************)
\* a character class and a literal under re.IGNORECASE
ISet(cs) == Set(CaseFold(cs))
ILit(cs) == Cat([x \in 1..Len(cs) |-> ISet({cs[x]})])

\* r'^\s*\d{1,3}\s*(?:\.\.\.|\.)'
_MOVE_START_RE ==
    Cat(<<BOL, Star(Ws), Rep(Dg, 1, 3), Star(Ws), Alt(<<Lit(<<".",".",".">>), Lit(<<".">>)>>)>>)

\* r'^\d{1,3}\.{1,3}'
_MOVE_PREFIX_RE == Cat(<<BOL, Rep(Dg, 1, 3), Rep(Ch("."), 1, 3)>>)

\* r'^(?:1-0|0-1|1/2-1/2|\*)$'
_RESULT_TOKEN_RE ==
    Cat(<<BOL, Alt(<<Lit(<<"1","-","0">>), Lit(<<"0","-","1">>), Lit(<<"1","/","2","-","1","/","2">>), Lit(<<"*">>)>>), EOL>>)

\* r'^(?:\+/-|-/\+|\u00b1|\u2213|\+=|=\+|=|\u221e)$'; a character outside
\* Latin-1 is written as its code point
_EVAL_TOKEN_RE ==
    Cat(<<BOL, Alt(<<Lit(<<"+","/","-">>), Lit(<<"-","/","+">>), Lit(<<"±">>), Lit(<<"U+2213">>), Lit(<<"+","=">>),
                     Lit(<<"=","+">>), Lit(<<"=">>), Lit(<<"U+221E">>)>>), EOL>>)

\* r'(?:=[QRBN])?(?:[+#t])?(?:[!?]{1,2})?(?:N)?' under re.IGNORECASE
_SAN_SUFFIX ==
    Cat(<<Opt(Cat(<<Ch("="), ISet({"Q", "R", "B", "N"})>>)), Opt(ISet({"+", "#", "t"})),
          Opt(Rep(Set({"!", "?"}), 1, 2)), Opt(ISet({"N"}))>>)

\* _SAN_TOKEN_RE (re.IGNORECASE): castling, piece move, pawn capture, pawn move
_SAN_TOKEN_RE ==
    Cat(<<BOL,
          Alt(<<Cat(<<Alt(<<Cat(<<ISet({"O"}), Opt(Ch("-")), ISet({"O"}),
                                  Opt(Cat(<<Opt(Ch("-")), ISet({"O"})>>))>>),
                            Cat(<<Lit(<<"0","-","0">>), Opt(Lit(<<"-","0">>))>>)>>),
                      _SAN_SUFFIX>>),
                Cat(<<ISet(PieceCh), Rep(ISet(FileCh \cup RankCh), 0, 2),
                      Opt(ISet({"x"})), ISet(FileCh), Set(RankCh), _SAN_SUFFIX>>),
                Cat(<<ISet(FileCh), ISet({"x"}), ISet(FileCh), Set(RankCh), _SAN_SUFFIX>>),
                Cat(<<ISet(FileCh), Set(RankCh), _SAN_SUFFIX>>)>>),
          EOL>>)

\* translation_core._strip_token_wrappers
_strip_token_wrappers(token) ==
    Strip(Strip(Strip(token, SpaceCh), {"(", ")", "[", "]", "{", "}"}), {",", ";", ":"})

\* the tail of _is_chess_notation_token: t after the move-number prefix
IsSanCore(t) ==
    \/ \E suffix \in {<<"+","/","-">>, <<"-","/","+">>} :
          /\ Len(suffix) <= Len(t) /\ StartsWithAt(t, suffix, Len(t) - Len(suffix))
          /\ Len(t) > Len(suffix)
          /\ FullMatch(_SAN_TOKEN_RE, Slice(t, 0, Len(t) - Len(suffix)))
    \/ FullMatch(_SAN_TOKEN_RE, t)

\* _is_chess_notation_token after the wrappers are stripped
IsNotationStripped(t) ==
    IF t = <<>> THEN FALSE
    ELSE IF \/ t = <<"N">>
            \/ t \in {<<"+">>, <<"#">>, <<"t">>}
            \/ FullMatch(Rep(Ch("."), 1, 3), t)
            \/ FullMatch(Plus(Set({"-", "U+2013", "U+2014"})), t)
            \/ FullMatch(Plus(Set({"!", "?"})), t)
            \/ FullMatch(_RESULT_TOKEN_RE, t)
            \/ FullMatch(_EVAL_TOKEN_RE, t)
            \/ FullMatch(Rep(Dg, 1, 3), t)
            \/ FullMatch(Cat(<<Rep(Dg, 1, 3), Rep(Ch("."), 1, 3)>>), t)
         THEN TRUE
         ELSE LET AfterPrefix(m) ==
                      IF m.st = -1 THEN IsSanCore(t)
                      ELSE IF m.e = Len(t) THEN TRUE
                           ELSE IsSanCore(LStrip(Slice(t, m.e, Len(t)), {"."}))
              IN  AfterPrefix(MatchAt(_MOVE_PREFIX_RE, t, 0))

\* translation_core._is_chess_notation_token
_is_chess_notation_token(token) == IsNotationStripped(_strip_token_wrappers(token))

RECURSIVE PrefixEndFrom(_, _, _, _)
\* the loop of _find_notation_prefix_end over the tokens ms[k..]; last_end
\* is -1 for None
PrefixEndFrom(text, ms, k, last_end) ==
    IF k > Len(ms) THEN last_end
    ELSE LET token == GroupText(text, ms[k], 0)
         IN  IF last_end # -1 /\ "\n" \in Range(Slice(text, last_end, ms[k].st))
             THEN IF \/ _is_chess_notation_token(token)
                     \/ token \in {<<"N">>, <<"t">>, <<"+">>, <<"#">>}
                  THEN PrefixEndFrom(text, ms, k + 1, ms[k].e)
                  ELSE last_end
             ELSE IF _is_chess_notation_token(token)
                  THEN PrefixEndFrom(text, ms, k + 1, ms[k].e)
                  ELSE last_end

\* translation_core._find_notation_prefix_end (-1 for None)
_find_notation_prefix_end(text) ==
    PrefixEndFrom(text, FindIter(Plus(NonWs), text, 0), 1, -1)

(***************************************************************************)
(* translation_core.py: the fallback that rebuilds bold markers            *)
(***************************************************************************)
\* r'\[\[B\]\](.*?)\[\[/B\]\]' with re.DOTALL
_BOLD_SPAN_RE == Cat(<<Lit(B_START), Grp(1, LazyStar(AnyAll)), Lit(B_END)>>)

\* r'\b\d{1,3}\s*(?:\.\.\.|\.)\s*[A-Za-z0-9][^\s,;:]*'
_CHESS_MOVE_BOLD_RE ==
    Cat(<<WB, Rep(Dg, 1, 3), Star(Ws), Alt(<<Lit(<<".",".",".">>), Lit(<<".">>)>>), Star(Ws),
          Set(LowerCh \cup UpperCh \cup DigitCh), Star(NSet(SpaceCh \cup {",", ";", ":"}))>>)

\* r'\b(?:diagram|rysunek|figure|fig\.?|game|partia|chapter|rozdzia[łl]
\* |exercise|ćwiczenie)\b[^\n]*' with re.IGNORECASE
_HEADING_BOLD_RE ==
    Cat(<<WB,
          Alt(<<ILit(<<"d","i","a","g","r","a","m">>), ILit(<<"r","y","s","u","n","e","k">>), ILit(<<"f","i","g","u","r","e">>),
                Cat(<<ILit(<<"f","i","g">>), Opt(Ch("."))>>), ILit(<<"g","a","m","e">>), ILit(<<"p","a","r","t","i","a">>),
                ILit(<<"c","h","a","p","t","e","r">>),
                Cat(<<ILit(<<"r","o","z","d","z","i","a">>), ISet({"U+0142", "U+0141", "l"})>>),
                ILit(<<"e","x","e","r","c","i","s","e">>),
                Cat(<<Set({"U+0107", "U+0106"}), ILit(<<"w","i","c","z","e","n","i","e">>)>>)>>),
          WB, Star(NSet({"\n"}))>>)

\* the length of the longest span _rebuild_bold_from_patterns makes bold
MaxBoldSpan == 140

Min(a, b) == IF a <= b THEN a ELSE b

\* text.replace(B_START, "").replace(B_END, "")
Plain(text) == Replace(Replace(text, B_START, <<>>), B_END, <<>>)

\* the runs that are bold and whose text is not blank
ExpectedBold(runs) == SelectSeq(runs, LAMBDA r : r.bold /\ Strip(r.text, SpaceCh) # <<>>)

\* s.split("\n")
Lines(s) == SplitOn(s, "\n", <<>>)

RECURSIVE JoinLines(_, _, _)
\* "\n".join(lines[a-1:b]) for 1-based a..b
JoinLines(lines, a, b) ==
    IF a > b THEN <<>>
    ELSE IF a = b THEN lines[a]
         ELSE lines[a] \o <<"\n">> \o JoinLines(lines, a + 1, b)

RECURSIVE NotationLines(_, _)
\* the loop that collects the leading notation lines: the number of lines
\* collected, lines[i] (1-based) being the next one to look at
NotationLines(lines, i) ==
    IF i > Len(lines) THEN i - 1
    ELSE LET stripped == Strip(lines[i], SpaceCh)
         IN  IF \/ stripped = <<"N">> /\ i > 1
                \/ i = 1 /\ MatchAt(_MOVE_START_RE, stripped, 0).st # -1
                \/ i > 1 /\ _is_chess_notation_token(stripped)
             THEN NotationLines(lines, i + 1)
             ELSE i - 1

\* the spans of the matches ms, each cut after MaxBoldSpan characters and at
\* the first newline at or after its start
CleanSpans(plain, ms) ==
    [x \in 1..Len(ms) |->
        LET end == Min(ms[x].e, ms[x].st + MaxBoldSpan)
            newline_pos == Find(plain, <<"\n">>, ms[x].st)
        IN  [start |-> ms[x].st,
             end   |-> IF newline_pos # -1 THEN Min(end, newline_pos) ELSE end]]

RECURSIVE InsertSpans(_, _, _)
\* the markers written around spans[1..k], last span first
InsertSpans(rebuilt, spans, k) ==
    IF k = 0 THEN rebuilt
    ELSE InsertSpans(Slice(rebuilt, 0, spans[k].start) \o B_START
                       \o Slice(rebuilt, spans[k].start, spans[k].end) \o B_END
                       \o Slice(rebuilt, spans[k].end, Len(rebuilt)),
                     spans, k - 1)

\* _rebuild_bold_from_patterns when neither pattern matches: the leading
\* notation lines, or else the first line
RebuildFromLines(plain) ==
    IF Strip(plain, SpaceCh) = <<>> THEN plain
    ELSE LET Marked(lines, n) ==
                 IF n > 0
                 THEN IF n < Len(lines)
                      THEN B_START \o JoinLines(lines, 1, n) \o B_END \o <<"\n">>
                           \o JoinLines(lines, n + 1, Len(lines))
                      ELSE B_START \o JoinLines(lines, 1, n) \o B_END
                 ELSE IF Len(lines) > 1
                      THEN B_START \o lines[1] \o B_END \o <<"\n">>
                           \o JoinLines(lines, 2, Len(lines))
                      ELSE B_START \o plain \o B_END
         IN  Marked(Lines(plain), NotationLines(Lines(plain), 1))

\* _rebuild_bold_from_patterns after the notation prefix was tried
RebuildFromSpans(plain) ==
    LET Pick(moves) ==
            IF moves # <<>> THEN InsertSpans(plain, CleanSpans(plain, moves), Len(moves))
            ELSE LET PickHeading(heads) ==
                         IF heads # <<>>
                         THEN InsertSpans(plain, CleanSpans(plain, heads), Len(heads))
                         ELSE RebuildFromLines(plain)
                 IN  PickHeading(FindIter(_HEADING_BOLD_RE, plain, 0))
    IN  Pick(FindIter(_CHESS_MOVE_BOLD_RE, plain, 0))

\* _rebuild_bold_from_patterns on the plain text
RebuildPlain(runs, plain) ==
    IF ExpectedBold(runs) = <<>> THEN plain
    ELSE IF MatchAt(_MOVE_START_RE, plain, 0).st # -1
         THEN LET Cut(end) ==
                      IF end > 0 /\ RStrip(Slice(plain, 0, end), SpaceCh) # <<>>
                      THEN B_START \o RStrip(Slice(plain, 0, end), SpaceCh) \o B_END
                           \o Slice(plain, end, Len(plain))
                      ELSE RebuildFromSpans(plain)
              IN  Cut(_find_notation_prefix_end(plain))
         ELSE RebuildFromSpans(plain)

\* translation_core._rebuild_bold_from_patterns
_rebuild_bold_from_patterns(runs, translated_text) == RebuildPlain(runs, Plain(translated_text))

(***************************************************************************)
(* translation_core.py: normalisations and _reapply_bold_markers           *)
(***************************************************************************)
\* normalize_bold_content: the new content of one bold span
NormalizeBoldContent(content) ==
    Sub(Cat(<<Grp(1, Lit(<<".",".",".">>)), Plus(Ws)>>), <<G(1)>>,
        Sub(Cat(<<Plus(Ws), Ch("N"), EOL>>), <<L(<<"N">>)>>,
            Sub(Cat(<<Grp(1, Cat(<<Plus(Dg), Ch(".")>>)), Plus(Ws)>>), <<G(1)>>, content)))

RECURSIVE NormalizeBoldFrom(_, _, _)
\* re.sub(_BOLD_SPAN_RE, normalize_bold_content, text): the text from offset
\* cur on, the search resuming at offset i
NormalizeBoldFrom(text, i, cur) ==
    LET Rest(m) ==
            IF m.st = -1 THEN Slice(text, cur, Len(text))
            ELSE Slice(text, cur, m.st)
                 \o B_START \o NormalizeBoldContent(GroupText(text, m, 1)) \o B_END
                 \o NormalizeBoldFrom(text, m.e, m.e)
    IN  Rest(SearchFrom(_BOLD_SPAN_RE, text, i))

\* translation_core._normalize_notation_in_bold
_normalize_notation_in_bold(text) ==
    IF text = <<>> \/ ~Contains(text, B_START) THEN text
    ELSE NormalizeBoldFrom(text, 0, 0)

RECURSIVE FixNoveltyFrom(_, _, _)
\* pattern.sub(replacer, text): the text from offset cur on, the search
\* resuming at offset i.  The pattern is ( ?)(\[\[/B\]\])(\s*)(N)(?=\s|$|\n)
FixNoveltyFrom(text, i, cur) ==
    LET Rest(m) ==
            IF m.st = -1 THEN Slice(text, cur, Len(text))
            ELSE Slice(text, cur, m.st)
                 \o <<"N">> \o B_END
                 \o (IF "\n" \in Range(GroupText(text, m, 3)) THEN <<"\n">> ELSE <<>>)
                 \o FixNoveltyFrom(text, m.e, m.e)
    IN  Rest(SearchFrom(Cat(<<Grp(1, Opt(Ch(" "))), Grp(2, Lit(B_END)), Grp(3, Star(Ws)),
                              Grp(4, Ch("N")), LookAhead(Alt(<<Ws, EOL, Ch("\n")>>))>>),
                        text, i))

\* the novelty fix that closes the bold span and loses the N
_fix_novelty_outside_bold_dropsNovelty(text) ==
    IF text = <<>> \/ ~Contains(text, B_END) THEN text
    ELSE Sub(Cat(<<Opt(Ch(" ")), Lit(B_END), Star(Ws), Ch("N"),
                   LookAhead(Alt(<<Ws, EOL, Ch("\n")>>))>>), <<L(B_END)>>, text)

\* translation_core._fix_novelty_outside_bold
_fix_novelty_outside_bold(text) ==
    IF text = <<>> \/ ~Contains(text, B_END) THEN text
    ELSE Sub(Rep(Ch("\n"), 3, -1), <<L(<<"\n","\n">>)>>, FixNoveltyFrom(text, 0, 0))

RECURSIVE SumLen(_)
\* the sum of the lengths of the texts ss
SumLen(ss) == IF ss = <<>> THEN 0 ELSE Len(Head(ss)) + SumLen(Tail(ss))

\* _has_bold_leak measuring the spans without stripping them
_has_bold_leak_rawLength(spans, plain_len, expected_count) ==
    IF plain_len <= 0 THEN FALSE
    ELSE \/ SumLen(spans) * 100 > 55 * Max(1, plain_len)
         \/ expected_count # 0 /\ Len(spans) # expected_count

\* translation_core._has_bold_leak; ratio > 0.55 is coverage * 100 >
\* 55 * max(1, plain_len)
_has_bold_leak(spans, plain_len, expected_count) ==
    IF plain_len <= 0 THEN FALSE
    ELSE \/ SumLen([x \in 1..Len(spans) |-> Strip(spans[x], SpaceCh)]) * 100
              > 55 * Max(1, plain_len)
         \/ expected_count # 0 /\ Len(spans) # expected_count

\* the contents of the complete bold spans of text
BoldSpans(text) ==
    LET Contents(ms) == [x \in 1..Len(ms) |-> GroupText(text, ms[x], 1)]
    IN  Contents(FindIter(_BOLD_SPAN_RE, text, 0))

\* the test of _reapply_bold_markers for keeping the translator's markers,
\* spans being the contents of the bold spans of text
Trusted(runs, text, spans, plain) ==
    /\ spans # <<>>
    /\ Count(text, B_START) = Count(text, B_END)
    /\ ~_has_bold_leak(spans, Len(plain), Len(ExpectedBold(runs)))

\* one bold run expected and markers present: the cut after the notation
\* prefix, <<>> when the text offers none
RecutAtPrefix(plain) ==
    IF MatchAt(_MOVE_START_RE, plain, 0).st = -1 THEN <<>>
    ELSE LET Cut(end) ==
                 IF /\ end > 0
                    /\ end < Len(plain)
                    /\ RStrip(Slice(plain, 0, end), SpaceCh) # <<>>
                    /\ Strip(Slice(plain, end, Len(plain)), SpaceCh) # <<>>
                 THEN B_START \o RStrip(Slice(plain, 0, end), SpaceCh) \o B_END
                      \o Slice(plain, end, Len(plain))
                 ELSE <<>>
         IN  Cut(_find_notation_prefix_end(plain))

\* one bold run expected and markers present: the cut at the bold share of
\* the source length, <<>> when the runs have no bold text
RecutAtShare(runs, plain) ==
    LET total_src == SumLen([x \in 1..Len(runs) |-> runs[x].text])
        bold_src  == SumLen([x \in 1..Len(runs) |->
                                IF runs[x].bold THEN runs[x].text ELSE <<>>])
        target0   == Max(1, Min(Len(plain), (Len(plain) * bold_src) \div total_src))
        newline_pos == Find(plain, <<"\n">>, 0)
        target_len == IF newline_pos # -1 THEN Min(target0, newline_pos) ELSE target0
    IN  IF total_src > 0 /\ bold_src > 0
        THEN B_START \o Slice(plain, 0, target_len) \o B_END
             \o Slice(plain, target_len, Len(plain))
        ELSE <<>>

\* one bold run expected and no markers: the first sentence made bold, <<>>
\* when the text does not split in two non-blank parts
SplitAtSentence(plain) ==
    LET Parts(m) ==
            IF /\ m.st # -1
               /\ Strip(Slice(plain, 0, m.st), SpaceCh) # <<>>
               /\ Strip(Slice(plain, m.e, Len(plain)), SpaceCh) # <<>>
            THEN B_START \o Slice(plain, 0, m.st) \o B_END \o <<" ">>
                 \o Slice(plain, m.e, Len(plain))
            ELSE <<>>
    \* (?<=[\.!?])\s+
    IN  Parts(SearchFrom(Cat(<<LookBehind(Set({".", "!", "?"})), Plus(Ws)>>), plain, 0))

\* no markers, several lines: the leading notation lines made bold, or else
\* the first line
BoldLeadingLines(plain) ==
    LET Marked(lines, n) ==
            IF n > 0
            THEN IF JoinLines(lines, n + 1, Len(lines)) # <<>>
                 THEN B_START \o JoinLines(lines, 1, n) \o B_END \o <<"\n">>
                      \o JoinLines(lines, n + 1, Len(lines))
                 ELSE B_START \o JoinLines(lines, 1, n) \o B_END
            ELSE B_START \o lines[1] \o B_END \o <<"\n">> \o JoinLines(lines, 2, Len(lines))
    IN  Marked(Lines(plain), NotationLines(Lines(plain), 1))

\* _reapply_bold_markers when no complete bold span is in the text
ReapplyNoSpans(runs, plain) ==
    LET OrLines(split) ==
            IF Len(ExpectedBold(runs)) = 1 /\ split # <<>> THEN split
            ELSE IF "\n" \in Range(plain) THEN BoldLeadingLines(plain)
                 ELSE _rebuild_bold_from_patterns(runs, plain)
    IN  OrLines(SplitAtSentence(plain))

\* _reapply_bold_markers when the markers of the text are not kept
ReapplyUntrusted(runs, text, spans, plain) ==
    IF spans # <<>> /\ Len(ExpectedBold(runs)) = 1
    THEN LET OrShare(cut) ==
                 IF cut # <<>> THEN cut
                 ELSE IF RecutAtShare(runs, plain) # <<>> THEN RecutAtShare(runs, plain)
                      ELSE _rebuild_bold_from_patterns(runs, text)
         IN  OrShare(RecutAtPrefix(plain))
    ELSE IF Len(ExpectedBold(runs)) > 0 /\ spans = <<>>
         THEN ReapplyNoSpans(runs, plain)
         ELSE _rebuild_bold_from_patterns(runs, text)

\* _reapply_bold_markers after its two normalisations
ReapplyNormalized(runs, text) ==
    LET Decide(spans, plain) ==
            IF Trusted(runs, text, spans, plain) THEN text
            ELSE ReapplyUntrusted(runs, text, spans, plain)
    IN  Decide(BoldSpans(text), Plain(text))

\* translation_core._reapply_bold_markers
_reapply_bold_markers(runs, translated_text) ==
    IF translated_text = <<>> THEN translated_text
    ELSE ReapplyNormalized(runs,
             _normalize_notation_in_bold(_fix_novelty_outside_bold(translated_text)))

(***************************************************************************)
(* Specification SpecReconcile: one translated block goes through          *)
(* _reapply_bold_markers and is decoded for rendering                      *)
(* (translate_blocks_intelligent, then render_translated_page)             *)
(***************************************************************************)
MaxPlainPieces  == 4    \* longest translated text without markers, in pieces
MaxMarkedPieces == 5    \* longest translated text with markers, in pieces

\* the runs of the source block: one bold move number and prose, no bold
\* run, two bold runs
RecRuns ==
    { <<[text |-> <<"1","6",".">>, bold |-> TRUE], [text |-> <<" ","B","x","d","6"," ","i","s"," ","a"," ","m","i","s","t","a","k","e",".">>, bold |-> FALSE]>>,
      <<[text |-> <<"a"," ","b">>, bold |-> FALSE]>>,
      <<[text |-> <<"1","6",".">>, bold |-> TRUE], [text |-> <<" ","e","4"," ">>, bold |-> FALSE],
        [text |-> <<"1","7",".">>, bold |-> TRUE]>> }

\* translated texts: the translator dropped the markers, or returned them
\* moved, duplicated or unbalanced
RecTexts ==
    UNION {{Flat(ps) : ps \in [1..n -> { <<"1","6",".">>, <<"B","x","d","6">>, <<" ">>,
                                          <<" ","t","o",".">>, <<" ","z","l","e">>, <<"\n">> }]}
           : n \in 0..MaxPlainPieces}
    \cup UNION {{Flat(ps) : ps \in [1..n -> { B_START, B_END, <<"1","6",".">>, <<" ">>,
                                               <<" ","t","o",".">> }]}
                : n \in 0..MaxMarkedPieces}

RecInit ==
    /\ pc = "translated"
    /\ inp \in [runs : RecRuns, text : RecTexts]
    /\ out = [marked |-> <<>>, segs |-> <<>>]
    /\ RenderIdle

\* tr = _reapply_bold_markers(runs_map.get(idx_map[j], []), tr)
Reapply ==
    /\ pc = "translated"
    /\ out' = [out EXCEPT !.marked = _reapply_bold_markers(inp.runs, inp.text)]
    /\ pc' = "reapplied"
    /\ UNCHANGED <<inp, renderVars>>

\* segs = parse_marked_segments(b.get("translated_marked") ...)
DecodeReapplied ==
    /\ pc = "reapplied"
    /\ out' = [out EXCEPT !.segs = parse_marked_segments(out.marked)]
    /\ pc' = "decoded"
    /\ UNCHANGED <<inp, renderVars>>

RecNext == Reapply \/ DecodeReapplied

SpecReconcile == RecInit /\ [][RecNext]_vars

\* the first bold segment of the decoded result, <<>> when there is none
FirstBold(segs) ==
    LET bolds == SelectSeq(segs, LAMBDA sg : sg.bold)
    IN  IF bolds = <<>> THEN <<>> ELSE bolds[1].text

\* s is a prefix of t
IsPrefix(s, t) == Len(s) <= Len(t) /\ SubSeq(t, 1, Len(s)) = s

\* the whitespace-separated tokens of s
Tokens0(s) == Words(s, <<>>)

\* the text starts with a move number followed by notation and then prose
\* ("16. Bxd6 ..." or "16.Bxd6 ..."): the first token is notation and opens
\* with the move number, a move follows the number, and a later token is a
\* prose word
MoveThenProse(text) ==
    LET toks == Tokens0(text)
    IN  /\ toks # <<>>
        /\ text[1] \notin SpaceCh
        /\ MatchAt(_MOVE_PREFIX_RE, toks[1], 0).st # -1
        /\ _is_chess_notation_token(toks[1])
        /\ \/ MatchAt(_MOVE_PREFIX_RE, toks[1], 0).e < Len(toks[1])
           \/ Len(toks) > 1 /\ _is_chess_notation_token(toks[2])
        /\ \E x \in 2..Len(toks) : ~_is_chess_notation_token(toks[x])

\* C5: when exactly one bold run is expected, the translated text carries no
\* markers and starts with a move number followed by notation and then
\* prose, the first bold segment of the reconciled text is a prefix of the
\* text that ends at a token boundary and holds no prose word.
C5_BoldStopsBeforeProse ==
    ( /\ pc = "decoded"
      /\ Len(ExpectedBold(inp.runs)) = 1
      /\ ~Contains(inp.text, B_START) /\ ~Contains(inp.text, B_END)
      /\ MoveThenProse(inp.text) )
    => LET fb == FirstBold(out.segs)
       IN  /\ fb # <<>>
           /\ IsPrefix(fb, inp.text)
           /\ Len(fb) = Len(inp.text) \/ inp.text[Len(fb) + 1] \in SpaceCh \/ fb[Len(fb)] \in SpaceCh
           /\ \A x \in 1..Len(Tokens0(fb)) : _is_chess_notation_token(Tokens0(fb)[x])

RECURSIVE WellFormedFrom(_, _, _)
\* the markers of t from offset i on are well-formed, open telling whether
\* a start delimiter awaits its end delimiter
WellFormedFrom(t, i, open) ==
    IF i >= Len(t) THEN ~open
    ELSE IF StartsWithAt(t, B_START, i)
         THEN ~open /\ WellFormedFrom(t, i + Len(B_START), TRUE)
         ELSE IF StartsWithAt(t, B_END, i)
              THEN open /\ WellFormedFrom(t, i + Len(B_END), FALSE)
              ELSE WellFormedFrom(t, i + 1, open)

\* the conditions under which the markers of text are to be kept: a complete
\* bold span, as many start as end delimiters, at most 0.55 of the plain
\* text bold, and as many spans as bold runs are expected when any is
KeepConditions(runs, text) ==
    LET spans == BoldSpans(text)
    IN  /\ spans # <<>>
        /\ Count(text, B_START) = Count(text, B_END)
        /\ SumLen([x \in 1..Len(spans) |-> Strip(spans[x], SpaceCh)]) * 100
             <= 55 * Len(Plain(text))
        /\ Len(ExpectedBold(runs)) # 0 => Len(spans) = Len(ExpectedBold(runs))

\* the translated text after the two normalisations _reapply_bold_markers
\* starts with
Normalized(text) == _normalize_notation_in_bold(_fix_novelty_outside_bold(text))

\* C6 as stated: a translated text that meets the conditions is returned
\* as-is, same characters and same marker positions.
C6_ReturnedAsIs ==
    (pc = "reapplied" /\ KeepConditions(inp.runs, inp.text)) => out.marked = inp.text

\* C6 amended: when the translated text, after the novelty and the
\* notation-spacing normalisations, meets the conditions, the result is that
\* normalised text, with no marker moved, added or removed.
C6_NormalizedReturnedAsIs ==
    pc = "reapplied" =>
        LET t == Normalized(inp.text)
        IN  KeepConditions(inp.runs, t) => out.marked = t

\* a text that the normalisations change, and that then meets the
\* conditions, has been returned in its normalised form
C6_Witness ==
    /\ pc = "reapplied"
    /\ KeepConditions(inp.runs, Normalized(inp.text))
    /\ Normalized(inp.text) # inp.text
    /\ out.marked = Normalized(inp.text)

\* C7: whatever the expected runs and the translated text, the reconciled
\* text is well-formed: every start delimiter is closed by an end delimiter
\* before the next start delimiter and no end delimiter is stray.
C7_ResultWellFormed ==
    pc = "reapplied" => WellFormedFrom(out.marked, 0, FALSE)

\* C8: when a non-blank bold run is expected and the translated text has
\* non-blank plain content, decoding the reconciled text yields a bold
\* segment with non-empty text.
C8_BoldKept ==
    ( /\ pc = "decoded"
      /\ ExpectedBold(inp.runs) # <<>>
      /\ Strip(Plain(inp.text), SpaceCh) # <<>> )
    => \E x \in 1..Len(out.segs) : out.segs[x].bold /\ out.segs[x].text # <<>>

(***************************************************************************)
(* Notation repair (chess_pdf/san.py): the transforms that                 *)
(* postprocess_translated_marked applies, in the order it applies them.    *)
(* Each pattern is written next to the regular expression it transcribes.  *)
(***************************************************************************)
RECURSIVE IgnoreCase(_)
\* the pattern r compiled with flags=re.IGNORECASE
IgnoreCase(r) ==
    CASE r.k = "set" -> [r EXCEPT !.cs = CaseFold(@)]
      [] r.k = "lit" -> ILit(r.s)
      [] r.k \in {"cat", "alt"} ->
            [r EXCEPT !.rs = [x \in DOMAIN r.rs |-> IgnoreCase(r.rs[x])]]
      [] r.k \in {"rep", "grp", "la", "lb"} -> [r EXCEPT !.r = IgnoreCase(@)]
      [] OTHER -> r

RECURSIVE SubAll(_, _, _)
\* s = re.sub(pattern, template, s) for each <<pattern, template>> of
\* rules[k..], one statement after another; no pattern of the rules matches
\* the empty string, so an empty s stays empty
SubAll(rules, k, s) ==
    IF k > Len(rules) \/ s = <<>> THEN s
    ELSE SubAll(rules, k + 1, Sub(rules[k][1], rules[k][2], s))

\* the callback of _fix_misplaced_bold_markers, on the content of a span
fix_marker(inner) ==
    LET \* the result for the stripped content and its match m of
        \* polish_word_pattern
        Split(content, m) ==
            IF m.st # -1
            THEN B_START \o RStrip(Slice(content, 0, m.st), SpaceCh) \o B_END \o <<" ">>
                 \o Slice(content, m.st, Len(content))
            ELSE B_START \o content \o B_END
        \* \b(?![KQRBNO]\b)(?![A-Z]x)\p{Lu}[\p{Ll}]{2,}\b
        Search(content) ==
            Split(content,
                  SearchFrom(Cat(<<WB, NegLookAhead(Cat(<<Set(PieceCh \cup {"O"}), WB>>)),
                                   NegLookAhead(Cat(<<Set(UpperCh), Ch("x")>>)),
                                   Set(UpperCh), Rep(Set(LowerCh), 2, -1), WB>>),
                             content, 0))
        \* \s*\n\s*
    IN  Search(Strip(Sub(Cat(<<Star(Ws), Ch("\n"), Star(Ws)>>), <<L(<<" ">>)>>, inner),
                     SpaceCh))

RECURSIVE FixMisplacedFrom(_, _, _)
\* re.sub(pattern, fix_marker, marked, flags=re.DOTALL) from offset i; cur is
\* the offset copied so far.  The pattern is \[\[B\]\](.*?)\[\[/B\]\]
FixMisplacedFrom(s, i, cur) ==
    LET Rest(m) == IF m.st = -1 THEN Slice(s, cur, Len(s))
                   ELSE Slice(s, cur, m.st) \o fix_marker(GroupText(s, m, 1))
                        \o FixMisplacedFrom(s, m.e, m.e)
    IN  IF i > Len(s) THEN Slice(s, cur, Len(s))
        ELSE Rest(SearchFrom(Cat(<<Lit(B_START), Grp(1, LazyStar(AnyAll)), Lit(B_END)>>),
                             s, i))

_fix_misplaced_bold_markers(marked) == FixMisplacedFrom(marked, 0, 0)

\* (?<!\.)\b(\d{1,3})(?=\s*(?:[KQRBNO]|[a-h]|[iI]|J|[""]!|![""]))
_insert_missing_dot_after_move_number(s) ==
    Sub(Cat(<<NegLookBehind(Ch(".")), WB, Grp(1, Rep(Dg, 1, 3)),
              LookAhead(Cat(<<Star(Ws),
                  Alt(<<Set(PieceCh \cup {"O"}), Set(FileCh), Set({"i", "I"}), Ch("J"),
                        Cat(<<Ch("\""), Ch("!")>>), Cat(<<Ch("!"), Ch("\"")>>)>>)>>))>>),
        <<G(1), L(<<".">>)>>, s)

\* the callback repl of _normalize_move_numbers: group 1 is num, group 2 dots
MoveNumberRepl(s, m) ==
    LET \* raw.translate(trans) with the whitespace removed
        Digits(raw) ==
            SelectSeq([x \in 1..Len(raw) |->
                          IF raw[x] \in {"l", "I", "|"} THEN "1" ELSE raw[x]],
                      LAMBDA c : c \notin SpaceCh)
    IN  Digits(GroupText(s, m, 1))
        \o (IF Count(GroupText(s, m, 2), <<".">>) >= 2 THEN <<".", ".", ".">> ELSE <<".">>)

RECURSIVE NormalizeMoveNumbersFrom(_, _, _)
\* re.sub(pattern, repl, s) from offset i.  The pattern is
\* \b(?P<num>[Il|\d][Il|\s\d]{0,4})\s*(?P<dots>(?:\.\s*){1,6})
NormalizeMoveNumbersFrom(s, i, cur) ==
    LET Rest(m) == IF m.st = -1 THEN Slice(s, cur, Len(s))
                   ELSE Slice(s, cur, m.st) \o MoveNumberRepl(s, m)
                        \o NormalizeMoveNumbersFrom(s, m.e, m.e)
    IN  IF i > Len(s) THEN Slice(s, cur, Len(s))
        ELSE Rest(SearchFrom(
                 Cat(<<WB, Grp(1, Cat(<<Set({"I", "l", "|"} \cup DigitCh),
                                        Rep(Set({"I", "l", "|"} \cup SpaceCh \cup DigitCh),
                                            0, 4)>>)),
                       Star(Ws), Grp(2, Rep(Cat(<<Ch("."), Star(Ws)>>), 1, 6))>>),
                 s, i))

_normalize_move_numbers(s) == NormalizeMoveNumbersFrom(s, 0, 0)

_normalize_move_dots(s) ==
    SubAll(<<
        \* \b(\d{1,3})\s*(?:\.\s*){2,}
        <<Cat(<<WB, Grp(1, Rep(Dg, 1, 3)), Star(Ws),
                Rep(Cat(<<Ch("."), Star(Ws)>>), 2, -1)>>),
          <<G(1), L(<<".", ".", ".">>)>> >>,
        \* \b(\d{1,3})\s*\.(?!\.)
        <<Cat(<<WB, Grp(1, Rep(Dg, 1, 3)), Star(Ws), Ch("."), NegLookAhead(Ch("."))>>),
          <<G(1), L(<<".">>)>> >> >>, 1, s)

\* only the tokens written with zeros alone are rewritten
ReplaceCastling_zerosOnly(s) ==
    Replace(Replace(s, <<"0","-","0","-","0">>, <<"O","-","O","-","O">>),
            <<"0","-","0">>, <<"O","-","O">>)

\* the chain of str.replace calls that rewrites castling written with zeros
ReplaceCastling(s) ==
    Replace(Replace(Replace(Replace(Replace(s,
        <<"0","-","0","-","0">>, <<"O","-","O","-","O">>), <<"0","-","0">>, <<"O","-","O">>), <<"O","-","0","-","0">>, <<"O","-","O","-","O">>),
        <<"O","-","0">>, <<"O","-","O">>), <<"0","-","O">>, <<"O","-","O">>)

_normalize_castling_and_times(s) == ReplaceCastling(Replace(s, <<"×">>, <<"x">>))

\* _FIGURINE_MAP: the replacement of one character (the figurines and daggers
\* are written as code points, U+2654 is the white king)
FigurineOf(c) ==
    CASE c \in {"U+2654", "U+265A"} -> <<"K">>
      [] c \in {"U+2655", "U+265B"} -> <<"Q">>
      [] c \in {"U+2656", "U+265C"} -> <<"R">>
      [] c \in {"U+2657", "U+265D"} -> <<"B">>
      [] c \in {"U+2658", "U+265E"} -> <<"N">>
      [] c \in {"U+2659", "U+265F"} -> <<>>
      [] c \in {"U+2020", "U+2021", "U+271D", "U+271E"} -> <<"+">>
      [] OTHER -> <<c>>

_normalize_piece_glyphs_in_context(s) ==
    IF s = <<>> THEN s
    ELSE SubAll(<<
        \* \+\s*/\s*-
        <<Cat(<<Ch("+"), Star(Ws), Ch("/"), Star(Ws), Ch("-")>>), <<L(<<"+","/","-">>)>> >>,
        \* -\s*/\s*\+
        <<Cat(<<Ch("-"), Star(Ws), Ch("/"), Star(Ws), Ch("+")>>), <<L(<<"-","/","+">>)>> >> >>,
        1, Flat([x \in 1..Len(s) |-> FigurineOf(s[x])]))

\* the function returns its argument
_repair_san_tokens_in_text(s) == s

_fix_spaced_punctuation(s) ==
    SubAll(<<
        \* !\s*!    \?\s*\?    !\s*\?    \?\s*!
        <<Cat(<<Ch("!"), Star(Ws), Ch("!")>>), <<L(<<"!","!">>)>> >>,
        <<Cat(<<Ch("?"), Star(Ws), Ch("?")>>), <<L(<<"?","?">>)>> >>,
        <<Cat(<<Ch("!"), Star(Ws), Ch("?")>>), <<L(<<"!","?">>)>> >>,
        <<Cat(<<Ch("?"), Star(Ws), Ch("!")>>), <<L(<<"?","!">>)>> >>,
        \* \s+([!?.,;:])
        <<Cat(<<Plus(Ws), Grp(1, Set({"!", "?", ".", ",", ";", ":"}))>>), <<G(1)>> >>,
        \* ([(\[]) +
        <<Cat(<<Grp(1, Set({"(", "["})), Plus(Ch(" "))>>), <<G(1)>> >>,
        \*  +([)\]])
        <<Cat(<<Plus(Ch(" ")), Grp(1, Set({")", "]"}))>>), <<G(1)>> >> >>, 1, s)

Square == Cat(<<Set(FileCh), Set(RankCh)>>)         \* [a-h][1-8]

\* (?:=[QRBN])?(?:[+#])? and then the annotation marks
SanTail(marks) ==
    Cat(<<Opt(Cat(<<Ch("="), Set({"Q", "R", "B", "N"})>>)), Opt(Set({"+", "#"})), marks>>)

\* (\b<token>)([a-z]{1,3})\b with
\* token = (?:[KQRBN])?(?:[a-h])?x?(?:[a-h][1-8])(?:=[QRBN])?(?:[+#])?(?:[!?]{1,2})?
_strip_garbage_suffixes_after_square(s) ==
    Sub(Cat(<<Grp(1, Cat(<<WB, Opt(Set(PieceCh)), Opt(Set(FileCh)), Opt(Ch("x")), Square,
                           SanTail(Opt(Rep(Set({"!", "?"}), 1, 2)))>>)),
              Grp(2, Rep(Set(LowerCh), 1, 3)), WB>>),
        <<G(1)>>, s)

_fix_remaining_ocr_artifacts(text) ==
    LET \* \b<name>\s*([xa-h]) under re.IGNORECASE, replaced by r'<letter>\1'
        PieceName(name, letter) ==
            <<IgnoreCase(Cat(<<WB, Lit(name), Star(Ws), Grp(1, Set({"x"} \cup FileCh))>>)),
              <<L(<<letter>>), G(1)>> >>
        \* \b<word>\s*([1-8])\b, replaced by r'<words>\1'
        Glued(word, words) ==
            <<Cat(<<WB, Lit(word), Star(Ws), Grp(1, Set(RankCh)), WB>>), <<L(words), G(1)>> >>
    IN  SubAll(<<
        \* \b([a-h])\s+([1-8])\b
        <<Cat(<<WB, Grp(1, Set(FileCh)), Plus(Ws), Grp(2, Set(RankCh)), WB>>),
          <<G(1), G(2)>> >>,
        \* \b([KQRBN])\s+([a-h][1-8])
        <<Cat(<<WB, Grp(1, Set(PieceCh)), Plus(Ws), Grp(2, Square)>>), <<G(1), G(2)>> >>,
        \* ([KQRBN]|[a-h][1-8]|[a-h])\s+x\s*
        <<Cat(<<Grp(1, Alt(<<Set(PieceCh), Square, Set(FileCh)>>)), Plus(Ws), Ch("x"),
                Star(Ws)>>),
          <<G(1), L(<<"x">>)>> >>,
        \* x\s+([a-h][1-8])
        <<Cat(<<Ch("x"), Plus(Ws), Grp(1, Square)>>), <<L(<<"x">>), G(1)>> >>,
        \* (\d+\.)\s+([a-hKQRBN])
        <<Cat(<<Grp(1, Cat(<<Plus(Dg), Ch(".")>>)), Plus(Ws),
                Grp(2, Set(FileCh \cup PieceCh))>>),
          <<G(1), G(2)>> >>,
        \* \b[Hh]etman\s*([xa-h]) and the like; the source has the rules for
        \* the rook and the king twice
        PieceName(<<"h","e","t","m","a","n">>, "Q"), PieceName(<<"g","o","n","i","e","c">>, "B"),
        PieceName(<<"s","k","o","c","z","e","k">>, "N"), PieceName(<<"w","i","e","z","a">>, "R"), PieceName(<<"k","r","o","l">>, "K"),
        PieceName(<<"w","i","e","z","a">>, "R"), PieceName(<<"k","r","o","l">>, "K"),
        \* \bone\s*([1-8])\b and the like
        Glued(<<"o","n","e">>, <<"o","n"," ","e">>), Glued(<<"i","n","d">>, <<"o","n"," ","d">>), Glued(<<"i","n","c">>, <<"o","n"," ","c">>),
        Glued(<<"i","n","f">>, <<"o","n"," ","f">>), Glued(<<"i","n","g">>, <<"o","n"," ","g">>),
        \* (\d+\.{2,})\s+([KQRBN][a-h]?[1-8]?x?[a-h][1-8])
        <<Cat(<<Grp(1, Cat(<<Plus(Dg), Rep(Ch("."), 2, -1)>>)), Plus(Ws),
                Grp(2, Cat(<<Set(PieceCh), Opt(Set(FileCh)), Opt(Set(RankCh)),
                             Opt(Ch("x")), Square>>))>>),
          <<G(1), G(2)>> >>,
        \* ([KQRBN]?[a-h]?[1-8]?x?[a-h][1-8](?:=[QRBN])?[+#]?[!?]{0,2})(?:ao|±)\b
        <<Cat(<<Grp(1, Cat(<<Opt(Set(PieceCh)), Opt(Set(FileCh)), Opt(Set(RankCh)),
                             Opt(Ch("x")), Square, SanTail(Rep(Set({"!", "?"}), 0, 2))>>)),
                Alt(<<Lit(<<"a","o">>), Lit(<<"±">>)>>), WB>>),
          <<G(1)>> >> >>, 1,
        ReplaceCastling(SubAll(<<
        \* \b(\d)l(\.{1,3})
        <<Cat(<<WB, Grp(1, Dg), Ch("l"), Grp(2, Rep(Ch("."), 1, 3))>>),
          <<G(1), G(1), G(2)>> >>,
        \* (\d+)\s*\.\s*\.(?=[KQRBN]?[a-h][1-8])
        <<Cat(<<Grp(1, Plus(Dg)), Star(Ws), Ch("."), Star(Ws), Ch("."),
                LookAhead(Cat(<<Opt(Set(PieceCh)), Square>>))>>),
          <<G(1), L(<<".">>)>> >>,
        \* (\d+)\.{4,}(?=[KQRBN]?[a-h][1-8])
        <<Cat(<<Grp(1, Plus(Dg)), Rep(Ch("."), 4, -1),
                LookAhead(Cat(<<Opt(Set(PieceCh)), Square>>))>>),
          <<G(1), L(<<".", ".", ".">>)>> >> >>, 1, text)))

\* (?:[KQRBN])?(?:[a-h][1-8]|[a-h]x[a-h][1-8]|[a-h]x?[a-h][1-8])(?:=[QRBN])?(?:[+#])?(?:[!?]{0,2})
_SAN_INLINE_RE ==
    Cat(<<Opt(Set(PieceCh)),
          Alt(<<Square, Cat(<<Set(FileCh), Ch("x"), Square>>),
                Cat(<<Set(FileCh), Opt(Ch("x")), Square>>)>>),
          SanTail(Rep(Set({"!", "?"}), 0, 2))>>)

_fix_prose_chess_artifacts(text) ==
    IF text = <<>> THEN text
    ELSE SubAll(<<
        \* \bmog[ęe]\s+wygra[cć]\s+z\s+(\d+\.\.\.[A-Za-z0-9O\-+=#/]+), re.IGNORECASE
        <<IgnoreCase(Cat(<<WB, Lit(<<"m","o","g">>), Set({"U+0119", "e"}), Plus(Ws),
                           Lit(<<"w","y","g","r","a">>), Set({"c", "U+0107"}), Plus(Ws), Ch("z"), Plus(Ws),
                           Grp(1, Cat(<<Plus(Dg), Lit(<<".",".",".">>),
                                        Plus(Set(LowerCh \cup UpperCh \cup DigitCh
                                                 \cup {"-", "+", "=", "#", "/"}))>>))>>)),
          <<L(<<"m","o","g","U+0119"," ","w","y","g","r","a","U+0107"," ","p","o"," ">>), G(1)>> >>,
        \* \bz ruchu tekstowego\b, re.IGNORECASE
        <<IgnoreCase(Cat(<<WB, Lit(<<"z"," ","r","u","c","h","u"," ","t","e","k","s","t","o","w","e","g","o">>), WB>>)),
          <<L(<<"z"," ","r","u","c","h","u"," ","z"," ","p","a","r","t","i","i">>)>> >>,
        \* \.\.\.\s+(?=<_SAN_INLINE_RE>\b)
        <<Cat(<<Lit(<<".",".",".">>), Plus(Ws), LookAhead(Cat(<<_SAN_INLINE_RE, WB>>))>>),
          <<L(<<" ">>)>> >>,
        \* \b(zar[oó]wno)\s+(<_SAN_INLINE_RE>)\s+(jak i)\s+(<_SAN_INLINE_RE>)\b,
        \* re.IGNORECASE
        <<IgnoreCase(Cat(<<WB, Grp(1, Cat(<<Lit(<<"z","a","r">>), Set({"o", "ó"}), Lit(<<"w","n","o">>)>>)),
                           Plus(Ws), Grp(2, _SAN_INLINE_RE), Plus(Ws),
                           Grp(3, Lit(<<"j","a","k"," ","i">>)), Plus(Ws), Grp(4, _SAN_INLINE_RE), WB>>)),
          <<G(1), L(<<" ">>), G(2), L(<<","," ">>), G(3), L(<<" ">>), G(4)>> >>,
        \* (?<=\S)\s+(-\+|\+/-|-/\+)
        <<Cat(<<LookBehind(NonWs), Plus(Ws),
                Grp(1, Alt(<<Lit(<<"-","+">>), Lit(<<"+","/","-">>), Lit(<<"-","/","+">>)>>))>>),
          <<G(1)>> >> >>, 1, text)

\* the paragraph breaks are kept in the private placeholder U+E000 while the
\* wrapped lines are joined
_normalize_soft_prose_linebreaks(text) ==
    IF text = <<>> \/ "\n" \notin Range(text) THEN text
    ELSE Sub(Rep(Ch(" "), 2, -1), <<L(<<" ">>)>>,            \*  {2,}
         Replace(SubAll(<<
            \* ([,;:])\n(?=\p{Ll})
            <<Cat(<<Grp(1, Set({",", ";", ":"})), Ch("\n"), LookAhead(Set(LowerCh))>>),
              <<G(1), L(<<" ">>)>> >>,
            \* (\b\p{L}{1,14})\n(?=\p{Ll})
            <<Cat(<<Grp(1, Cat(<<WB, Rep(Set(LowerCh \cup UpperCh), 1, 14)>>)), Ch("\n"),
                    LookAhead(Set(LowerCh))>>),
              <<G(1), L(<<" ">>)>> >>,
            \* (?<=\p{Ll})\n(?=\p{Ll})
            <<Cat(<<LookBehind(Set(LowerCh)), Ch("\n"), LookAhead(Set(LowerCh))>>),
              <<L(<<" ">>)>> >>,
            \* (?<=\S)\n(?=\d{1,3}\.)
            <<Cat(<<LookBehind(NonWs), Ch("\n"),
                    LookAhead(Cat(<<Rep(Dg, 1, 3), Ch(".")>>))>>),
              <<L(<<" ">>)>> >> >>, 1,
            Replace(Replace(text, <<"\r">>, <<>>), <<"\n", "\n">>, <<"U+E000">>)),
            <<"U+E000">>, <<"\n", "\n">>))

\* (?:\d{1,3}\s*\.\.\.|\\?\d{1,3}\s*\.)\s*[A-Za-z0-9O\-=+#]*[a-h]?[1-8]?[=QNRB]?[+#]?[\!\?]*
move_token ==
    Cat(<<Alt(<<Cat(<<Rep(Dg, 1, 3), Star(Ws), Lit(<<".",".",".">>)>>),
                Cat(<<Opt(Ch("\\")), Rep(Dg, 1, 3), Star(Ws), Ch(".")>>)>>),
          Star(Ws),
          Star(Set(LowerCh \cup UpperCh \cup DigitCh \cup {"-", "=", "+", "#"})),
          Opt(Set(FileCh)), Opt(Set(RankCh)), Opt(Set({"=", "Q", "N", "R", "B"})),
          Opt(Set({"+", "#"})), Star(Set({"!", "?"}))>>)

\* (\[\[B\]\]\s*<move_token>\s*\[\[\/B\]\])\s*
_newline_after_bold_move(marked) ==
    Sub(Cat(<<Grp(1, Cat(<<Lit(B_START), Star(Ws), move_token, Star(Ws), Lit(B_END)>>)),
              Star(Ws)>>),
        <<G(1), L(<<"\n">>)>>, marked)

\* the assignments s = ... of postprocess_translated_marked, in order: the
\* value the k-th of them gives s
TransformSteps == 1..15

Transform(k, s) ==
    CASE k = 1  -> _fix_misplaced_bold_markers(s)
      [] k = 2  -> _insert_missing_dot_after_move_number(s)
      [] k = 3  -> _normalize_move_numbers(s)
      [] k = 4  -> _normalize_move_dots(s)
      [] k = 5  -> _normalize_castling_and_times(s)
      [] k = 6  -> _normalize_piece_glyphs_in_context(s)
      [] k = 7  -> _repair_san_tokens_in_text(s)
      [] k = 8  -> _fix_spaced_punctuation(s)
      [] k = 9  -> _strip_garbage_suffixes_after_square(s)
      [] k = 10 -> _fix_remaining_ocr_artifacts(s)
      [] k = 11 -> _fix_prose_chess_artifacts(s)
      [] k = 12 -> _normalize_soft_prose_linebreaks(s)
      [] k = 13 -> _newline_after_bold_move(s)
      \* (\b\d{1,3})\s*,\s*
      [] k = 14 -> Sub(Cat(<<Grp(1, Cat(<<WB, Rep(Dg, 1, 3)>>)), Star(Ws), Ch(","),
                             Star(Ws)>>),
                       <<G(1), L(<<".", " ">>)>>, s)
      \* \n{3,}
      [] k = 15 -> Sub(Rep(Ch("\n"), 3, -1), <<L(<<"\n", "\n">>)>>, s)

(***************************************************************************)
(* Specification: postprocess_translated_marked applied to a translated    *)
(* text, then applied again to its own output.  One step of the machine is *)
(* one assignment to s of the function; out.step is the next assignment.   *)
(* The texts are ASCII.                                                     *)
(***************************************************************************)
MaxRepairPieces == 3        \* longest translated text, in pieces

RECURSIVE RepairTexts(_)
\* the translated texts of at most n pieces
RepairTexts(n) ==
    IF n = 0 THEN {<<>>}
    ELSE RepairTexts(n - 1)
         \cup {t \o p : t \in RepairTexts(n - 1),
                        p \in { <<"1">>, <<",">>, <<" ">>, <<"e","4">>, <<".">>, <<"N","f","3">>, <<"\n">>, <<"0","-","0">> }}

RepairInit ==
    /\ pc = "text"
    /\ inp \in [text : RepairTexts(MaxRepairPieces)]
    /\ out = [s |-> <<>>, step |-> 0, once |-> <<>>, twice |-> <<>>]
    /\ RenderIdle

\* the argument of the call about to be made: the translated text, then the
\* first result
Marked == IF pc = "text" THEN inp.text ELSE out.once

\* if not marked: return marked
ReturnEmpty ==
    /\ pc \in {"text", "once"}
    /\ Marked = <<>>
    /\ pc' = IF pc = "text" THEN "once" ELSE "twice"
    /\ out' = IF pc = "text" THEN [out EXCEPT !.once = <<>>]
              ELSE [out EXCEPT !.twice = <<>>]
    /\ UNCHANGED <<inp, renderVars>>

\* s = marked
StartRepair ==
    /\ pc \in {"text", "once"}
    /\ Marked # <<>>
    /\ pc' = IF pc = "text" THEN "first pass" ELSE "second pass"
    /\ out' = [out EXCEPT !.s = Marked, !.step = 1]
    /\ UNCHANGED <<inp, renderVars>>

\* s = <transform>(s)
ApplyTransform ==
    /\ pc \in {"first pass", "second pass"}
    /\ out.step \in TransformSteps
    /\ out' = [out EXCEPT !.s = Transform(out.step, out.s), !.step = out.step + 1]
    /\ UNCHANGED <<pc, inp, renderVars>>

\* return s
ReturnRepaired ==
    /\ pc \in {"first pass", "second pass"}
    /\ out.step \notin TransformSteps
    /\ pc' = IF pc = "first pass" THEN "once" ELSE "twice"
    /\ out' = IF pc = "first pass" THEN [out EXCEPT !.once = out.s]
              ELSE [out EXCEPT !.twice = out.s]
    /\ UNCHANGED <<inp, renderVars>>

RepairNext == ReturnEmpty \/ StartRepair \/ ApplyTransform \/ ReturnRepaired

SpecRepair == RepairInit /\ [][RepairNext]_vars

\* C3: the notation-repair pipeline is idempotent on its own output: for
\* every input x, postprocess_translated_marked applied to
\* postprocess_translated_marked(x) returns postprocess_translated_marked(x).
C3_RepairIdempotent == pc = "twice" => out.twice = out.once

(***************************************************************************)
(* TextFitEngine: the scale search of rendering.choose_sizes_that_fit and  *)
(* rendering.render_translated_page                                        *)
(*                                                                         *)
(* Units.  A scale is an integer number of eightieths (0.6 is 48, 1.0 is   *)
(* 80, the stopping tolerance 0.02 is 1.6): every midpoint the search      *)
(* reaches is a whole number of eightieths.  A baseline size is in tenths  *)
(* of a point.  A scaled size is baseline * scale * 100 for regular and    *)
(* baseline * scale * 106 for bold, in 1/80000 point; widths are in        *)
(* 1/800000 point (len * size * 6) and heights in 1/8000000 point          *)
(* (lines * max size * 118).                                               *)
(***************************************************************************)
RECURSIVE MeasureLines(_, _, _, _, _, _, _)
\* the loops of _measure_height_dual from token k on: the value of lines
\* after the last segment
MeasureLines(toks, k, cur, lines, rect_w, regular_size, bold_size) ==
    IF k > Len(toks) THEN lines
    ELSE IF toks[k].brk
         THEN MeasureLines(toks, k + 1, 0, lines + 1, rect_w, regular_size, bold_size)
         ELSE LET size == IF toks[k].bold THEN bold_size ELSE regular_size
                  ww == text_width_fitz(toks[k].text, size)
                  sp == IF cur > 0 THEN text_width_fitz(<<" ">>, size) ELSE 0
              IN  IF cur + sp + ww <= rect_w
                  THEN MeasureLines(toks, k + 1, cur + sp + ww, lines, rect_w,
                                    regular_size, bold_size)
                  ELSE MeasureLines(toks, k + 1, ww, lines + 1, rect_w,
                                    regular_size, bold_size)

\* a rectangle without width measures 1e9 points, which is more than every
\* height of the model
_measure_height_dual(segments, rect_w, regular_size, bold_size) ==
    IF rect_w <= 0 THEN 2000000000
    ELSE MeasureLines(Tokens(segments), 1, 0, 1, rect_w, regular_size, bold_size)
         * (Max(regular_size, bold_size) * 118)

\* the height test with its sides exchanged
FitsAt_exchanged(segments, rect, base_regular, scale) ==
    rect.height <= _measure_height_dual(segments, rect.width, base_regular * scale * 100,
                                        base_regular * scale * BOLD_SCALE_PCT)

\* H <= rect.height (Hm <= rect.height) for the sizes base_regular * scale
\* and base_regular * scale * bold_scale
FitsAt(segments, rect, base_regular, scale) ==
    _measure_height_dual(segments, rect.width, base_regular * scale * 100,
                         base_regular * scale * BOLD_SCALE_PCT) <= rect.height

\* the step that moves the wrong end of the interval
Halved_wrongEnd(segments, rect, base_regular, lo, hi) ==
    LET mid == (lo + hi) \div 2
    IN  IF FitsAt(segments, rect, base_regular, mid)
        THEN [lo |-> lo, hi |-> mid]
        ELSE [lo |-> mid, hi |-> hi]

\* one iteration of the search loop up to its break test: the interval
\* after the step
Halved(segments, rect, base_regular, lo, hi) ==
    LET mid == (lo + hi) \div 2
    IN  IF FitsAt(segments, rect, base_regular, mid)
        THEN [lo |-> mid, hi |-> hi]
        ELSE [lo |-> lo, hi |-> mid]

\* hi - lo < 0.02
CloseEnough(lo, hi) == (hi - lo) * 100 < 2 * 80

RECURSIVE ScaleSearch(_, _, _, _, _, _)
\* the search loop with n iterations to go: the value of lo after it
ScaleSearch(segments, rect, base_regular, lo, hi, n) ==
    LET Continue(nx) ==
            IF CloseEnough(nx.lo, nx.hi) THEN nx.lo
            ELSE ScaleSearch(segments, rect, base_regular, nx.lo, nx.hi, n - 1)
    IN  IF n = 0 THEN lo ELSE Continue(Halved(segments, rect, base_regular, lo, hi))

\* the scale a block needs: 1.0 when it fits at the baseline size, and else
\* the result of the search over [0.6, 1.0]
RequiredScale(segments, rect, base_regular) ==
    IF FitsAt(segments, rect, base_regular, 80) THEN 80
    ELSE ScaleSearch(segments, rect, base_regular, 48, 80, 14)

(***************************************************************************)
(* Specification SpecFit: choose_sizes_that_fit, one step per measurement  *)
(***************************************************************************)
\* 0, 20 and 40 points wide; 10 to 60 points high
FitRects == [width : {0, 16000000, 32000000},
             height : {80000000, 160000000, 240000000, 360000000, 480000000}]

FitInit ==
    /\ pc = "fit"
    /\ inp \in [segments : UNION {{AltRuns(ts, b) : ts \in [1..n -> RenderTexts],
                                                   b \in BOOLEAN} : n \in 0..MaxSegs},
                rect : FitRects,
                base_regular : {100, 150}]
    /\ out = [lo |-> 0, hi |-> 0, steps |-> 0, reg |-> 0, bold |-> 0]
    /\ RenderIdle

\* the measurement at the baseline size: the sizes are returned when the
\* text fits, and else the search starts on [0.6, 1.0]
MeasureBaseline ==
    /\ pc = "fit"
    /\ IF FitsAt(inp.segments, inp.rect, inp.base_regular, 80)
       THEN /\ pc' = "done"
            /\ out' = [out EXCEPT !.reg = inp.base_regular * 80 * 100,
                                  !.bold = inp.base_regular * 80 * BOLD_SCALE_PCT]
       ELSE /\ pc' = "search"
            /\ out' = [out EXCEPT !.lo = 48, !.hi = 80]
    /\ UNCHANGED <<inp, renderVars>>

\* one iteration of "for _ in range(14)", its break included
Halve ==
    /\ pc = "search" /\ out.steps < 14
    /\ LET nx == Halved(inp.segments, inp.rect, inp.base_regular, out.lo, out.hi)
       IN  /\ out' = [out EXCEPT !.lo = nx.lo, !.hi = nx.hi, !.steps = out.steps + 1]
           /\ pc' = IF CloseEnough(nx.lo, nx.hi) THEN "found" ELSE "search"
    /\ UNCHANGED <<inp, renderVars>>

\* after the loop: reg = base_regular * lo, bold = reg * bold_scale
ReturnScaled ==
    /\ pc = "found" \/ (pc = "search" /\ out.steps = 14)
    /\ pc' = "done"
    /\ out' = [out EXCEPT !.reg = inp.base_regular * out.lo * 100,
                          !.bold = inp.base_regular * out.lo * BOLD_SCALE_PCT]
    /\ UNCHANGED <<inp, renderVars>>

FitNext == MeasureBaseline \/ Halve \/ ReturnScaled

SpecFit == FitInit /\ [][FitNext]_vars

\* the scale of the sizes returned
ChosenScale == out.reg \div (inp.base_regular * 100)

\* C12 as stated: when the text does not fit at scale 1.0 the search takes
\* at most 14 steps and returns a scale of [0.6, 1.0] at which the measured
\* height fits the rectangle height.
C12_SearchReturnsFittingScale ==
    (pc = "done" /\ ~FitsAt(inp.segments, inp.rect, inp.base_regular, 80))
        => /\ out.steps <= 14
           /\ ChosenScale \in 48..80
           /\ FitsAt(inp.segments, inp.rect, inp.base_regular, ChosenScale)

\* C12 amended: when the text fits at scale 1.0 the baseline sizes are
\* returned without a search step; otherwise the search takes at most 14
\* steps and returns a scale s of [0.6, 1.0) such that no scale above s fits
\* (s + 0.0125 included, so s is the largest fitting scale up to the
\* tolerance), and s fits whenever the text fits at 0.6 at all.
C12_SearchReturnsLargestOrFloor ==
    pc = "done" =>
        IF FitsAt(inp.segments, inp.rect, inp.base_regular, 80)
        THEN /\ out.steps = 0
             /\ out.reg = inp.base_regular * 80 * 100
             /\ out.bold = inp.base_regular * 80 * BOLD_SCALE_PCT
        ELSE /\ out.steps \in 1..14
             /\ ChosenScale \in 48..79
             /\ out.reg = inp.base_regular * ChosenScale * 100
             /\ out.bold = inp.base_regular * ChosenScale * BOLD_SCALE_PCT
             /\ \A s \in (ChosenScale + 1)..80 :
                    ~FitsAt(inp.segments, inp.rect, inp.base_regular, s)
             /\ FitsAt(inp.segments, inp.rect, inp.base_regular, 48)
                    => FitsAt(inp.segments, inp.rect, inp.base_regular, ChosenScale)

\* a search that ends strictly inside the interval, on a scale that fits
C12_Witness ==
    /\ pc = "done" /\ out.steps = 5
    /\ ChosenScale \in 49..78
    /\ FitsAt(inp.segments, inp.rect, inp.base_regular, ChosenScale)
    /\ ~FitsAt(inp.segments, inp.rect, inp.base_regular, ChosenScale + 1)

\* C13: scale selection is monotonic in the rectangle height: for the same
\* segments, width and baseline size, a rectangle that is no higher never
\* gets a larger scale.
C13_ScaleMonotonicInHeight ==
    pc = "done" =>
        \A h \in {r.height : r \in FitRects} :
            h <= inp.rect.height
                => RequiredScale(inp.segments, [inp.rect EXCEPT !.height = h],
                                 inp.base_regular) <= ChosenScale

\* a higher rectangle that gets a strictly larger scale, both by search
C13_Witness ==
    /\ pc = "done" /\ out.steps > 0
    /\ \E h \in {r.height : r \in FitRects} :
          /\ h < inp.rect.height
          /\ RequiredScale(inp.segments, [inp.rect EXCEPT !.height = h],
                           inp.base_regular) < ChosenScale
          /\ RequiredScale(inp.segments, [inp.rect EXCEPT !.height = h],
                           inp.base_regular) > 48

(***************************************************************************)
(* Specification SpecPage: rendering.render_translated_page, one step per  *)
(* block of each of its two loops.  A block's rect is <<width, height>> in *)
(* points with its corner at the origin, or <<>> for a block without rect; *)
(* skip_regions is empty, so that _avoid_regions returns the rect itself.  *)
(* The page records the calls of render_marked_segments with their         *)
(* arguments; what a call draws is specification SpecRender.               *)
(***************************************************************************)
\* (block.get("translated_marked") or "").strip()
StrippedMarked(block) == Strip(block.translated_marked, SpaceCh)

\* work_rect: the rect with its margin of 2 taken off and 20 added to the
\* right, 10 to the bottom; Rect.width and Rect.height are never negative
WorkRect(block) ==
    [width  |-> Max(0, (0 + block.rect[1] - 2 + 20) - (0 + 2)) * 800000,
     height |-> Max(0, (0 + block.rect[2] - 2 + 10) - (0 + 2)) * 8000000]

\* the tests of the first loop that let a block through
ValidBlock(block) ==
    /\ StrippedMarked(block) # <<>>
    /\ block.rect # <<>>
    /\ ~(WorkRect(block).width <= 0 \/ WorkRect(block).height <= 0)

\* the second loop's pass over the segments: a bold move head (pattern
\* ^\s*\d{1,3}\s*(?:\.\.\.|\.)(?:\s|$)) followed by a regular segment gets a
\* newline at its end
WithHeadBreaks(segments) ==
    LET move_head_re == Cat(<<BOL, Star(Ws), Rep(Dg, 1, 3), Star(Ws),
                              Alt(<<Lit(<<".", ".", ".">>), Ch(".")>>), Alt(<<Ws, EOL>>)>>)
        Broken(i) ==
            IF /\ i < Len(segments)
               /\ segments[i].bold
               /\ MatchAt(move_head_re, segments[i].text, 0).st # -1
               /\ segments[i].text[Len(segments[i].text)] # "\n"
               /\ ~segments[i + 1].bold
            THEN [segments[i] EXCEPT !.text = @ \o <<"\n">>]
            ELSE segments[i]
    IN  [i \in 1..Len(segments) |-> Broken(i)]

MaxBlocks == 2      \* most blocks on a page

\* translated_marked of the blocks
PageMarked == { <<>>, <<" ">>, <<"a","b">>, <<"[","[","B","]","]","1",".","[","[","/","B","]","]"," ","e","4"," ","a","b">>, <<"a","b","c","d","e","f","g","h"," ","a","b","c","d","e","f","g","h"," ","a","b">>,
               <<"[","[","B","]","]","1",".","[","[","/","B","]","]"," ","e","4"," ","[","[","B","]","]","2",".","[","[","/","B","]","]"," ","d","4"," ","[","[","B","]","]","3",".","[","[","/","B","]","]"," ","c","4">> }

\* no rect, a rect narrower than its margins, 4 x 10, 24 x 14, 24 x 24 and
\* 100 x 8
PageRects == { <<>>, <<0 - 20, 10>>, <<4, 10>>, <<24, 14>>, <<24, 24>>, <<100, 8>> }

PageInit ==
    /\ pc = "measure"
    /\ inp \in [blocks : UNION {[1..n -> [translated_marked : PageMarked, rect : PageRects]]
                                : n \in 0..MaxBlocks},
                base_regular_size : {100, 150}]
    /\ out = [next |-> 1, min_scale |-> 80, valid_blocks |-> <<>>,
              final_regular_size |-> 0, final_bold_size |-> 0, rendered |-> 0]
    /\ RenderIdle

\* MeasureBlock with the scale of the block taken as the page scale
MeasureBlock_lastScale ==
    /\ pc = "measure" /\ out.next <= Len(inp.blocks)
    /\ ValidBlock(inp.blocks[out.next])
    /\ LET segments == parse_marked_segments(StrippedMarked(inp.blocks[out.next]))
           work_rect == WorkRect(inp.blocks[out.next])
       IN  out' = [out EXCEPT
                     !.valid_blocks = Append(@, [block |-> out.next, segments |-> segments,
                                                 work_rect |-> work_rect]),
                     !.min_scale = RequiredScale(segments, work_rect, inp.base_regular_size),
                     !.next = out.next + 1]
    /\ UNCHANGED <<pc, inp, renderVars>>

\* MeasureBlock with the block rendered as soon as it is measured, at the
\* scale known so far
MeasureBlock_streams ==
    /\ pc = "measure" /\ out.next <= Len(inp.blocks)
    /\ ValidBlock(inp.blocks[out.next])
    /\ LET segments == parse_marked_segments(StrippedMarked(inp.blocks[out.next]))
           work_rect == WorkRect(inp.blocks[out.next])
           scale == Min(out.min_scale, RequiredScale(segments, work_rect, inp.base_regular_size))
       IN  /\ out' = [out EXCEPT !.min_scale = scale, !.next = out.next + 1]
           /\ page' = Append(page, [block |-> out.next, segments |-> WithHeadBreaks(segments),
                                    rect |-> work_rect,
                                    regular_size |-> inp.base_regular_size * scale * 100,
                                    bold_size |-> inp.base_regular_size * scale * BOLD_SCALE_PCT])
    /\ UNCHANGED <<pc, inp, tokpos, line_runs, curw, y>>

\* the first loop on a block that passes its tests: the block joins
\* valid_blocks and min_scale takes the scale the block needs when that is
\* smaller
MeasureBlock ==
    /\ pc = "measure" /\ out.next <= Len(inp.blocks)
    /\ ValidBlock(inp.blocks[out.next])
    /\ LET segments == parse_marked_segments(StrippedMarked(inp.blocks[out.next]))
           work_rect == WorkRect(inp.blocks[out.next])
       IN  out' = [out EXCEPT
                     !.valid_blocks = Append(@, [block |-> out.next, segments |-> segments,
                                                 work_rect |-> work_rect]),
                     !.min_scale = Min(@, RequiredScale(segments, work_rect,
                                                        inp.base_regular_size)),
                     !.next = out.next + 1]
    /\ UNCHANGED <<pc, inp, renderVars>>

\* the first loop on a block without text, without rect or without room
SkipBlock ==
    /\ pc = "measure" /\ out.next <= Len(inp.blocks)
    /\ ~ValidBlock(inp.blocks[out.next])
    /\ out' = [out EXCEPT !.next = out.next + 1]
    /\ UNCHANGED <<pc, inp, renderVars>>

\* between the loops: final_regular_size and final_bold_size
ChooseFinalSizes ==
    /\ pc = "measure" /\ out.next > Len(inp.blocks)
    /\ pc' = "render"
    /\ out' = [out EXCEPT
                 !.final_regular_size = inp.base_regular_size * out.min_scale * 100,
                 !.final_bold_size = inp.base_regular_size * out.min_scale * BOLD_SCALE_PCT]
    /\ UNCHANGED <<inp, renderVars>>

\* the second loop on one block of valid_blocks
RenderBlock ==
    /\ pc = "render" /\ out.rendered < Len(out.valid_blocks)
    /\ LET v == out.valid_blocks[out.rendered + 1]
       IN  page' = Append(page, [block |-> v.block, segments |-> WithHeadBreaks(v.segments),
                                 rect |-> v.work_rect,
                                 regular_size |-> out.final_regular_size,
                                 bold_size |-> out.final_bold_size])
    /\ out' = [out EXCEPT !.rendered = out.rendered + 1]
    /\ UNCHANGED <<pc, inp, tokpos, line_runs, curw, y>>

\* the end of the second loop
FinishPage ==
    /\ pc = "render" /\ out.rendered = Len(out.valid_blocks)
    /\ pc' = "done"
    /\ UNCHANGED <<inp, out, renderVars>>

PageNext == MeasureBlock \/ SkipBlock \/ ChooseFinalSizes \/ RenderBlock \/ FinishPage

SpecPage == PageInit /\ [][PageNext]_vars

\* the indices of the valid blocks of the page
ValidIndices == {i \in 1..Len(inp.blocks) : ValidBlock(inp.blocks[i])}

\* the scale block i needs on its own
ScaleOfBlock(i) ==
    RequiredScale(parse_marked_segments(StrippedMarked(inp.blocks[i])),
                  WorkRect(inp.blocks[i]), inp.base_regular_size)

\* the least scale any valid block needs, 1.0 on a page without valid block
PageMinScale ==
    LET S == {ScaleOfBlock(i) : i \in ValidIndices} \cup {80}
    IN  CHOOSE m \in S : \A x \in S : m <= x

\* C14: every valid block of a page is rendered with one and the same pair
\* of sizes: the regular size is the page baseline size times the least
\* scale any block of the page needs (a scale of [0.6, 1.0]), and the bold
\* size is the regular size times BOLD_SCALE; when the page is done every
\* valid block has been rendered, in order.
C14_UniformPageSizes ==
    /\ PageMinScale \in 48..80
    /\ \A r \in 1..Len(page) :
          /\ page[r].block \in ValidIndices
          /\ page[r].regular_size = inp.base_regular_size * PageMinScale * 100
          /\ page[r].bold_size * 100 = page[r].regular_size * BOLD_SCALE_PCT
    /\ pc = "done" =>
          /\ {page[r].block : r \in 1..Len(page)} = ValidIndices
          /\ \A r \in 1..(Len(page) - 1) : page[r].block < page[r + 1].block

\* two blocks that need different scales, both rendered
C14_Witness ==
    /\ pc = "done" /\ Len(page) = 2
    /\ ScaleOfBlock(1) = 80 /\ ScaleOfBlock(2) \in 49..79
    /\ page[1].regular_size = page[2].regular_size
    /\ page[1].regular_size = inp.base_regular_size * ScaleOfBlock(2) * 100

\* C15: within a page no block is rendered before every block of the page
\* has been measured, and the page-wide scale and sizes do not change once
\* the first block has been rendered.
C15_MeasureAllThenRender ==
    /\ [](page # <<>> => out.next > Len(inp.blocks))
    /\ [][page # <<>> => /\ out'.min_scale = out.min_scale
                         /\ out'.final_regular_size = out.final_regular_size
                         /\ out'.final_bold_size = out.final_bold_size]_vars

\* a page with two rendered blocks of which the second needed a smaller
\* scale than the first
C15_Witness ==
    /\ pc = "done" /\ Len(page) = 2
    /\ ScaleOfBlock(page[2].block) < ScaleOfBlock(page[1].block)

(***************************************************************************)
(* chess_translator/postprocess.py: the fixes that the translator applies  *)
(* to a restored answer.  Letters outside Latin-1 are written as code      *)
(* points (U+0119 is e with ogonek).                                       *)
(***************************************************************************)
\* looks_like_refusal: re.search of each of _REFUSAL_PATTERNS in text.lower()
looks_like_refusal(text) ==
    LET low == [x \in 1..Len(text) |->
                  IF text[x] \in UpperCh
                  THEN LowerSeq[CHOOSE z \in 1..26 : UpperSeq[z] = text[x]] ELSE text[x]]
    IN  \E p \in { <<"n","i","e"," ","m","o","g">>, <<"p","r","z","y","k","r","o"," ","m","i">>, <<"c","a","n","n","o","t">>, <<"s","o","r","r","y">>, <<"i"," ","c","a","n","'","t">>,
                   <<"i","'","m"," ","u","n","a","b","l","e">> } : Contains(low, p)

\* re.sub(r, repl, s) with a function repl of the match
SubFn(r, repl(_), s) ==
    LET ms == FindIter(r, s, 0)
    IN  Flat([x \in 1..Len(ms) |->
                Slice(s, IF x = 1 THEN 0 ELSE ms[x - 1].e, ms[x].st) \o repl(ms[x])])
        \o Slice(s, IF ms = <<>> THEN 0 ELSE ms[Len(ms)].e, Len(s))

\* pattern.sub(lambda m: preserve_case(m, replacement), text): the
\* replacement gets a capital first letter when the match starts with one
SubPreserveCase(rule, text) ==
    SubFn(IgnoreCase(rule[1]),
          LAMBDA m : IF text[m.st + 1] \in UpperCh
                     THEN <<UpperSeq[CHOOSE z \in 1..26 : LowerSeq[z] = rule[2][1]]>>
                          \o Tail(rule[2])
                     ELSE rule[2],
          text)

RECURSIVE SubAllPreserveCase(_, _, _)
\* the loop over the <<pattern, replacement>> pairs rules[k..]
SubAllPreserveCase(rules, k, text) ==
    IF k > Len(rules) \/ text = <<>> THEN text
    ELSE SubAllPreserveCase(rules, k + 1, SubPreserveCase(rules[k], text))

\* text.translate(_FIGURINE_TRANSLATION), then the two evaluation signs
_normalize_piece_glyphs(text) ==
    IF text = <<>> THEN text
    ELSE SubAll(<<
        \* \+\s*/\s*-
        <<Cat(<<Ch("+"), Star(Ws), Ch("/"), Star(Ws), Ch("-")>>), <<L(<<"+","/","-">>)>> >>,
        \* -\s*/\s*\+
        <<Cat(<<Ch("-"), Star(Ws), Ch("/"), Star(Ws), Ch("+")>>), <<L(<<"-","/","+">>)>> >> >>,
        1, Flat([x \in 1..Len(text) |-> FigurineOf(text[x])]))

_fix_queen_D(translated) ==
    SubAll(<<
        \* \b(\d+\.)\s*D([a-h][1-8])
        <<Cat(<<WB, Grp(1, Cat(<<Plus(Dg), Ch(".")>>)), Star(Ws), Ch("D"), Grp(2, Square)>>),
          <<G(1), L(<<" ","Q">>), G(2)>> >>,
        \* \bD([a-h][1-8])
        <<Cat(<<WB, Ch("D"), Grp(1, Square)>>), <<L(<<"Q">>), G(1)>> >>,
        \* \bDx([a-h][1-8])
        <<Cat(<<WB, Lit(<<"D","x">>), Grp(1, Square)>>), <<L(<<"Q","x">>), G(1)>> >> >>,
        1, translated)

\* the loop over _PIECE_FIXES.items(), two substitutions for each entry:
\* \b{wrong}([a-h][1-8]) and \b{wrong}x([a-h][1-8])
_fix_piece_letters(translated) ==
    LET fixes == << <<<<"S">>, <<"N">>>>, <<<<"S","k">>, <<"N">>>>, <<<<"G">>, <<"B">>>>, <<<<"G","o">>, <<"B">>>>,
                    <<<<"W">>, <<"R">>>>, <<<<"W","i">>, <<"R">>>>, <<<<"H">>, <<"Q">>>>, <<<<"H","e">>, <<"Q">>>>,
                    <<<<"K","r">>, <<"K">>>> >>
    IN  SubAll(Flat([x \in 1..Len(fixes) |->
                  << <<Cat(<<WB, Lit(fixes[x][1]), Grp(1, Square)>>),
                       <<L(fixes[x][2]), G(1)>> >>,
                     <<Cat(<<WB, Lit(fixes[x][1]), Ch("x"), Grp(1, Square)>>),
                       <<L(fixes[x][2] \o <<"x">>), G(1)>> >> >>]),
               1, translated)

_fix_merged_prepositions(text) ==
    LET \* \b{word}\s+([1-8])\b  ->  na {file}\1
        Rule(word, file) ==
            <<Cat(<<WB, Lit(word), Plus(Ws), Grp(1, Set(RankCh)), WB>>),
              <<L(<<"n","a"," ">> \o <<file>>), G(1)>> >>
    IN  SubAll(<<Rule(<<"o","n","e">>, "e"), Rule(<<"i","n","d">>, "d"), Rule(<<"i","n","c">>, "c")>>
               \o [x \in 1..8 |-> Rule(<<"i","n">> \o <<LowerSeq[x]>>, LowerSeq[x])],
               1, text)

\* ([a-h][1-8])\s*-\s*(\w+) with the callback replace_square_piece
_fix_square_piece_pattern(text) ==
    SubFn(Cat(<<Grp(1, Square), Star(Ws), Ch("-"), Star(Ws),
                Grp(2, Plus(Set(LowerCh \cup UpperCh \cup DigitCh \cup {"_"})))>>),
          LAMBDA m :
            IF \E kw \in { <<"p","i","o","n">>, <<"w","i","e","U+017C">>, <<"g","o","n","i","e","c">>, <<"g","o","U+0144","c">>, <<"s","k","o","c","z","e","k">>, <<"s","k","o","c","z","k">>,
                           <<"h","e","t","m","a","n">>, <<"k","r","ó","l">>, <<"p","ó","l">>, <<"f","i","g","u","r">> } :
                 \E w \in {GroupText(text, m, 2)} :
                    /\ Len(kw) <= Len(w)
                    /\ \A x \in 1..Len(kw) : w[x] \in CaseFold({kw[x]})
            THEN GroupText(text, m, 2) \o <<" ","n","a"," ">> \o GroupText(text, m, 1)
            ELSE GroupText(text, m, 0),
          text)

RECURSIVE SyncFrom(_, _, _, _)
\* the loop of _sync_move_numbers over orig_nums[k..]
SyncFrom(translated, orig_nums, tr_nums, k) ==
    LET \* \b1\s*\.
        one == SearchFrom(Cat(<<WB, Ch("1"), Star(Ws), Ch(".")>>), translated, 0)
        num == orig_nums[k]
    IN  IF k > Len(orig_nums) THEN translated
        ELSE SyncFrom(IF num \notin Range(tr_nums) /\ num # <<"1">> /\ one.st # -1
                      THEN Slice(translated, 0, one.st) \o num \o <<".">>
                           \o Slice(translated, one.e, Len(translated))
                      ELSE translated,
                      orig_nums, tr_nums, k + 1)

_sync_move_numbers(translated, original) ==
    LET \* re.findall(r"\b(\d+)\s*\.", s)
        Nums(s) == LET ms == FindIter(Cat(<<WB, Grp(1, Plus(Dg)), Star(Ws), Ch(".")>>), s, 0)
                   IN  [x \in 1..Len(ms) |-> GroupText(s, ms[x], 1)]
    IN  IF Nums(original) # <<>> /\ Nums(translated) # <<>>
        THEN SyncFrom(translated, Nums(original), Nums(translated), 1)
        ELSE translated

_strip_unwanted_zagrano(translated, original) ==
    \* \bplayed\b|\bwas played\b
    IF SearchFrom(IgnoreCase(Alt(<<Cat(<<WB, Lit(<<"p","l","a","y","e","d">>), WB>>),
                                   Cat(<<WB, Lit(<<"w","a","s"," ","p","l","a","y","e","d">>), WB>>)>>)),
                  original, 0).st # -1
    THEN translated
    ELSE SubAll(<<
        \* \bzagrano\s+\d+\s*
        <<IgnoreCase(Cat(<<WB, Lit(<<"z","a","g","r","a","n","o">>), Plus(Ws), Plus(Dg), Star(Ws)>>)), <<>> >>,
        \* \bzagrano\b\s*
        <<IgnoreCase(Cat(<<WB, Lit(<<"z","a","g","r","a","n","o">>), WB, Star(Ws)>>)), <<>> >> >>,
        1, translated)

\* _TERM_REPLACEMENTS, each pattern \b{word}\b
_normalize_chess_terms(text) ==
    LET Term(word, rep) == <<Cat(<<WB, Lit(word), WB>>), rep>>
    IN  SubAllPreserveCase(<<Term(<<"p","i","o","n","k","i">>, <<"p","i","o","n","y">>), Term(<<"p","i","o","n","k","ó","w">>, <<"p","i","o","n","ó","w">>),
                             Term(<<"p","i","o","n","k","a","m","i">>, <<"p","i","o","n","a","m","i">>), Term(<<"p","i","o","n","k","o","m">>, <<"p","i","o","n","o","m">>),
                             Term(<<"p","i","o","n","k","a","c","h">>, <<"p","i","o","n","a","c","h">>)>>,
                           1, text)

\* _IDIOM_FIXES
_fix_chess_idioms(text) ==
    LET \* \b{a}\s+{b}
        Two(a, b)  == Cat(<<WB, Lit(a), Plus(Ws), b>>)
        \* lini[ęe]
        Linie      == Cat(<<Lit(<<"l","i","n","i">>), Set({"U+0119", "e"})>>)
        \* \b{word}\b
        Word(word) == Cat(<<WB, Lit(word), WB>>)
    IN  SubAllPreserveCase(<<
            <<Two(<<"z","a","b","r","a","U+0107">>, Linie), <<"z","a","j","U+0105","U+0107"," ","l","i","n","i","U+0119">>>>,
            <<Two(<<"z","a","b","i","e","r","a">>, Linie), <<"z","a","j","m","u","j","e"," ","l","i","n","i","U+0119">>>>,
            <<Two(<<"z","a","b","r","a","U+0142">>, Linie), <<"z","a","j","U+0105","U+0142"," ","l","i","n","i","U+0119">>>>,
            <<Two(<<"z","a","b","r","a","U+0142","a">>, Linie), <<"z","a","j","U+0119","U+0142","a"," ","l","i","n","i","U+0119">>>>,
            <<Two(<<"z","a","g","r","a","U+017C","a">>, Lit(<<"m","a","t","o","w","i">>)), <<"g","r","o","z","i"," ","m","a","t","e","m">>>>,
            <<Two(<<"z","a","g","r","a","U+017C","a","j","U+0105","c">>, Lit(<<"m","a","t","o","w","i">>)), <<"g","r","o","U+017C","U+0105","c"," ","m","a","t","e","m">>>>,
            <<Two(<<"z","a","g","r","a","U+017C","a","U+0142">>, Lit(<<"m","a","t","o","w","i">>)), <<"g","r","o","z","i","U+0142"," ","m","a","t","e","m">>>>,
            \* \bgrozi\s+z\s+matem
            <<Two(<<"g","r","o","z","i">>, Cat(<<Ch("z"), Plus(Ws), Lit(<<"m","a","t","e","m">>)>>)), <<"g","r","o","z","i"," ","m","a","t","e","m">>>>,
            <<Two(<<"z","a","g","r","o","U+017C","e","n","i","e">>, Lit(<<"m","a","t","a">>)), <<"g","r","o","U+017A","b","a"," ","m","a","t","a">>>>,
            \* \bpo\s+grze\b
            <<Two(<<"p","o">>, Cat(<<Lit(<<"g","r","z","e">>), WB>>)), <<"p","o"," ","p","a","r","t","i","i">>>>,
            <<Word(<<"k","r","ó","l","o","w","a">>), <<"h","e","t","m","a","n">>>>,
            <<Word(<<"k","r","ó","l","o","w","U+0105">>), <<"h","e","t","m","a","n","a">>>>,
            <<Word(<<"k","r","ó","l","o","w","e","j">>), <<"h","e","t","m","a","n","a">>>>,
            <<Word(<<"k","r","ó","l","o","w","e">>), <<"h","e","t","m","a","n","y">>>>,
            <<Word(<<"d","a","m","a">>), <<"h","e","t","m","a","n">>>>,
            <<Word(<<"d","a","m","U+0119">>), <<"h","e","t","m","a","n","a">>>>,
            <<Word(<<"d","a","m","y">>), <<"h","e","t","m","a","n","a">>>>,
            <<Two(<<"z","a","b","r","a","U+0107">>, Lit(<<"p","o","l","e">>)), <<"z","a","j","U+0105","U+0107"," ","p","o","l","e">>>>,
            <<Two(<<"z","a","b","i","e","r","a">>, Lit(<<"p","o","l","e">>)), <<"z","a","j","m","u","j","e"," ","p","o","l","e">>>>,
            <<Two(<<"w","y","k","o","n","a","U+0107">>, Lit(<<"w","y","m","i","a","n","U+0119">>)), <<"w","y","m","i","e","n","i","U+0107">>>>,
            <<Two(<<"w","y","k","o","n","u","j","e">>, Lit(<<"w","y","m","i","a","n","U+0119">>)), <<"w","y","m","i","e","n","i","a">>>>,
            <<Two(<<"w","y","k","o","n","a","U+0142">>, Lit(<<"w","y","m","i","a","n","U+0119">>)), <<"w","y","m","i","e","n","i","U+0142">>>> >>,
        1, text)

_fix_genitive_errors(text) ==
    LET \* [łl]
        El == Set({"U+0142", "l"})
    IN  SubAll(<<
        \* \bby\s+tego\s+nie\s+pozwoli[łl]
        <<IgnoreCase(Cat(<<WB, Lit(<<"b","y">>), Plus(Ws), Lit(<<"t","e","g","o">>), Plus(Ws), Lit(<<"n","i","e">>),
                           Plus(Ws), Lit(<<"p","o","z","w","o","l","i">>), El>>)),
          <<L(<<"b","y"," ","n","a"," ","t","o"," ","n","i","e"," ","p","o","z","w","o","l","i","U+0142","y">>)>> >>,
        \* \bnie\s+pozwoli[łl]yby\s+tego\b
        <<IgnoreCase(Cat(<<WB, Lit(<<"n","i","e">>), Plus(Ws), Lit(<<"p","o","z","w","o","l","i">>), El, Lit(<<"y","b","y">>),
                           Plus(Ws), Lit(<<"t","e","g","o">>), WB>>)),
          <<L(<<"n","i","e"," ","p","o","z","w","o","l","i","U+0142","y","b","y"," ","n","a"," ","t","o">>)>> >> >>,
        1,
        \* \b(nie)?doceni[łl]\s+to\s+poświęcenie\b
        SubFn(IgnoreCase(Cat(<<WB, Opt(Grp(1, Lit(<<"n","i","e">>))), Lit(<<"d","o","c","e","n","i">>), El, Plus(Ws),
                               Lit(<<"t","o">>), Plus(Ws), Lit(<<"p","o","U+015B","w","i","U+0119","c","e","n","i","e">>), WB>>)),
              LAMBDA m : (IF GroupText(text, m, 1) # <<>> THEN <<"n","i","e">> ELSE <<>>)
                         \o <<"d","o","c","e","n","i","U+0142"," ","t","e","g","o"," ","p","o","U+015B","w","i","U+0119","c","e","n","i","a">>,
              text))

_fix_move_phrase_artifacts(text) ==
    SubAll(<<
        \* \bmog[ęe]\s+wygra[cć]\s+z\s+(\d+\.\.\.[A-Za-z0-9O\-+=#/]+)
        <<IgnoreCase(Cat(<<WB, Lit(<<"m","o","g">>), Set({"U+0119", "e"}), Plus(Ws), Lit(<<"w","y","g","r","a">>),
                           Set({"c", "U+0107"}), Plus(Ws), Ch("z"), Plus(Ws),
                           Grp(1, Cat(<<Plus(Dg), Lit(<<".",".",".">>),
                                        Plus(Set(LowerCh \cup UpperCh \cup DigitCh
                                                 \cup {"-", "+", "=", "#", "/"}))>>))>>)),
          <<L(<<"m","o","g","U+0119"," ","w","y","g","r","a","U+0107"," ","p","o"," ">>), G(1)>> >>,
        \* \bz ruchu tekstowego\b
        <<IgnoreCase(Cat(<<WB, Lit(<<"z"," ","r","u","c","h","u"," ","t","e","k","s","t","o","w","e","g","o">>), WB>>)),
          <<L(<<"z"," ","r","u","c","h","u"," ","z"," ","p","a","r","t","i","i">>)>> >> >>,
        1, text)

\* postprocess._normalize_soft_prose_linebreaks; the marker __PARA_BREAK__
\* is written as the text it is
soft_prose_linebreaks(text) ==
    IF text = <<>> \/ "\n" \notin Range(text) THEN text
    ELSE Sub(Rep(Ch(" "), 2, -1), <<L(<<" ">>)>>,            \*  {2,}
         Replace(SubAll(<<
            \* ([,;:])\n(?=[a-z])
            <<Cat(<<Grp(1, Set({",", ";", ":"})), Ch("\n"),
                    LookAhead(Set(LowerCh \cup UpperCh))>>),
              <<G(1), L(<<" ">>)>> >>,
            \* (\b\w{1,14})\n(?=[a-z])
            <<Cat(<<Grp(1, Cat(<<WB, Rep(Set(LowerCh \cup UpperCh \cup DigitCh \cup {"_"}),
                                         1, 14)>>)),
                    Ch("\n"), LookAhead(Set(LowerCh \cup UpperCh))>>),
              <<G(1), L(<<" ">>)>> >>,
            \* (?<=\w)\n(?=[a-z])
            <<Cat(<<LookBehind(Set(LowerCh \cup UpperCh \cup DigitCh \cup {"_"})), Ch("\n"),
                    LookAhead(Set(LowerCh \cup UpperCh))>>),
              <<L(<<" ">>)>> >> >>, 1,
            Replace(Replace(text, <<"\r">>, <<>>), <<"\n", "\n">>, <<"_","_","P","A","R","A","_","B","R","E","A","K","_","_">>)),
            <<"_","_","P","A","R","A","_","B","R","E","A","K","_","_">>, <<"\n", "\n">>))

\* the callback collapse_digits of _fix_spaced_numbers on \b\d+(?:\s+\d+)+\b
_fix_spaced_numbers(text) ==
    SubFn(Cat(<<WB, Plus(Dg), Plus(Cat(<<Plus(Ws), Plus(Dg)>>)), WB>>),
          LAMBDA m : Replace(GroupText(text, m, 0), <<" ">>, <<>>),
          text)

_cleanup_spacing(translated) ==
    LET \* the body of the loop, for one line
        Cleaned(line) ==
            SubAll(<<
                \* (?<=[^\s\d])(?=\d+\.)
                <<Cat(<<LookBehind(NSet(SpaceCh \cup DigitCh)),
                        LookAhead(Cat(<<Plus(Dg), Ch(".")>>))>>),
                  <<L(<<" ">>)>> >>,
                \* ([.!?])(?!\s|$)(?=[A-Za-z...])
                <<Cat(<<Grp(1, Set({".", "!", "?"})), NegLookAhead(Alt(<<Ws, EOL>>)),
                        LookAhead(Set(LowerCh \cup UpperCh
                            \cup {"U+0104", "U+0106", "U+0118", "U+0141", "U+0143", "Ó",
                                  "U+015A", "U+0179", "U+017B", "U+0105", "U+0107", "U+0119",
                                  "U+0142", "U+0144", "ó", "U+015B", "U+017A", "U+017C"}))>>),
                  <<G(1), L(<<" ">>)>> >>,
                \*  {2,}
                <<Rep(Ch(" "), 2, -1), <<L(<<" ">>)>> >> >>,
                1,
                Strip(SubAll(<<
                    \* (\d+)\s*\.\s*\.+\s*
                    <<Cat(<<Grp(1, Plus(Dg)), Star(Ws), Ch("."), Star(Ws), Plus(Ch(".")),
                            Star(Ws)>>),
                      <<G(1), L(<<".",".",".">>)>> >>,
                    \* (\d+)\s*\.\s+
                    <<Cat(<<Grp(1, Plus(Dg)), Star(Ws), Ch("."), Plus(Ws)>>),
                      <<G(1), L(<<"."," ">>)>> >> >>,
                    1,
                    \* [ \t\r\f\v]+
                    _fix_spaced_numbers(Sub(Plus(Set({" ", "\t", "\r", "\f", "U+000B"})),
                                            <<L(<<" ">>)>>, line))),
                    SpaceCh))
        lines == Lines(translated)
    IN  Strip(JoinLines([x \in 1..Len(lines) |-> Cleaned(lines[x])], 1, Len(lines)), SpaceCh)

\* the assignments t = ... of postprocess_translation, in order: the value
\* the k-th of them gives t
PostprocessSteps == 1..13

PostprocessStep(k, t, original) ==
    CASE k = 1  -> _normalize_piece_glyphs(t)
      [] k = 2  -> _fix_queen_D(t)
      [] k = 3  -> _fix_piece_letters(t)
      [] k = 4  -> _fix_merged_prepositions(t)
      [] k = 5  -> _fix_square_piece_pattern(t)
      [] k = 6  -> _sync_move_numbers(t, original)
      [] k = 7  -> _strip_unwanted_zagrano(t, original)
      [] k = 8  -> _normalize_chess_terms(t)
      [] k = 9  -> _fix_chess_idioms(t)
      [] k = 10 -> _fix_genitive_errors(t)
      [] k = 11 -> _fix_move_phrase_artifacts(t)
      [] k = 12 -> soft_prose_linebreaks(t)
      [] k = 13 -> _cleanup_spacing(t)

(***************************************************************************)
(* chess_translator/gpt4mini.py: GPT4MiniTranslator.translate_chunks.      *)
(* The API is the environment: a call either raises an exception or        *)
(* returns the content of an answer.  An exception is the record of what   *)
(* the handler reads of it: str(exc), exc.status_code (0 when absent) and  *)
(* exc.error.code (empty when absent).  Delays are in microseconds.        *)
(***************************************************************************)
_is_rate_limit_error(exc) ==
    LET text == [x \in 1..Len(exc.msg) |->
                   IF exc.msg[x] \in UpperCh
                   THEN LowerSeq[CHOOSE z \in 1..26 : UpperSeq[z] = exc.msg[x]]
                   ELSE exc.msg[x]]
    IN  \/ Contains(text, <<"r","a","t","e"," ","l","i","m","i","t">>) \/ Contains(text, <<"l","i","m","i","t"," ","r","e","a","c","h","e","d">>)
        \/ exc.status_code = 429
        \/ exc.code = <<"r","a","t","e","_","l","i","m","i","t","_","e","x","c","e","e","d","e","d">>

RECURSIVE DigitsValue(_)
\* the number a string of digits denotes (0 for the empty string)
DigitsValue(ds) ==
    IF ds = <<>> THEN 0
    ELSE DigitsValue(SubSeq(ds, 1, Len(ds) - 1)) * 10
         + ((CHOOSE z \in 1..10 : DigitSeq[z] = ds[Len(ds)]) - 1)

\* float(s) for s of digits and dots: -1 where float raises ValueError (no
\* digit, or more than one dot), else the value in microseconds
FloatMicros(s) ==
    LET dot  == Find(s, <<".">>, 0)
        int  == IF dot = -1 THEN s ELSE Slice(s, 0, dot)
        frac == IF dot = -1 THEN <<>> ELSE Slice(s, dot + 1, dot + 7)
    IN  IF Count(s, <<".">>) > 1 \/ Range(s) \cap DigitCh = {} THEN -1
        ELSE DigitsValue(int) * 1000000
             + DigitsValue(frac \o [x \in 1..(6 - Len(frac)) |-> "0"])

\* _retry_delay_seconds: the delay, or -1 where the function raises
_retry_delay_seconds(exc, attempt) ==
    LET \* try again in ([0-9.]+)(ms|s), re.IGNORECASE
        match == SearchFrom(IgnoreCase(Cat(<<Lit(<<"t","r","y"," ","a","g","a","i","n"," ","i","n"," ">>),
                                             Grp(1, Plus(Set(DigitCh \cup {"."}))),
                                             Grp(2, Alt(<<Lit(<<"m","s">>), Lit(<<"s">>)>>))>>)),
                            exc.msg, 0)
        value == FloatMicros(GroupText(exc.msg, match, 1))
    IN  IF match.st # -1
        THEN IF value = -1 THEN -1
             ELSE Max(IF Len(GroupText(exc.msg, match, 2)) = 2 THEN value \div 1000 ELSE value,
                      100000)
        ELSE Min(500000 * 2^(attempt - 1), 10000000)

(***************************************************************************)
(* Specification SpecTranslate: one call of translate_chunks.  pc is the   *)
(* position in the function: "chunk" at the head of the loop over texts,   *)
(* "attempt" at the head of the retry loop, "post" inside                  *)
(* postprocess_translation (out.step is its next assignment), "judge" at   *)
(* the test of the candidate, "append" at results.append, "returned" and   *)
(* "raised" after the call.  out.log lists what the attempts of the chunk  *)
(* at hand came to, out.calls the number of API calls of each finished     *)
(* chunk.  out.delay is the time slept before the attempt at hand, and a   *)
(* candidate that failed the test is forgotten: nothing reads it again.    *)
(***************************************************************************)
MaxChunks == 2          \* longest list of texts
MaxRetries == 2         \* largest max_retries

ChunkTexts == { <<>>, <<" ","\n">>, <<"e","4"," ","w","i","n","s">>, <<"1","."," ","d","4"," ","o","k">> }

\* what the API answers: nothing, a refusal, a refusal once its line break
\* is joined, translations with and without the placeholder
Answers == { <<>>, <<" ","S","o","r","r","y",","," ","n","o",".">>, <<"P","r","z","y","k","r","o","\n","m","i">>, <<"<","<","<","C","H","E","S","S","_","0",">",">",">"," ","w","y","g","r","y","w","a">>,
             <<"1",".","D","d","4"," "," ","o","k">>, <<"z","a","g","r","a","n","o">> }

Errors ==
    { [msg |-> <<"b","o","o","m">>, status_code |-> 0, code |-> <<>>],
      [msg |-> <<"b","u","s","y">>, status_code |-> 429, code |-> <<>>],
      [msg |-> <<"q","u","o","t","a">>, status_code |-> 0, code |-> <<"r","a","t","e","_","l","i","m","i","t","_","e","x","c","e","e","d","e","d">>],
      [msg |-> <<"R","a","t","e"," ","l","i","m","i","t",":"," ","t","r","y"," ","a","g","a","i","n"," ","i","n"," ","1",".","5","s">>, status_code |-> 429, code |-> <<>>],
      [msg |-> <<"L","i","m","i","t"," ","r","e","a","c","h","e","d","."," ","T","r","y"," ","a","g","a","i","n"," ","i","n"," ","2","0","m","s">>, status_code |-> 0, code |-> <<>>],
      [msg |-> <<"r","a","t","e"," ","l","i","m","i","t",","," ","t","r","y"," ","a","g","a","i","n"," ","i","n"," ","1",".","2",".","3","s">>, status_code |-> 429, code |-> <<>>] }

TranslateInit ==
    /\ pc = "chunk"
    /\ inp \in [texts : UNION {[1..n -> ChunkTexts] : n \in 0..MaxChunks},
                max_retries : 0..MaxRetries]
    /\ out = [results |-> <<>>, calls |-> <<>>, protected_text |-> <<>>,
              placeholders |-> <<>>, attempt |-> 0, candidate |-> <<>>, step |-> 0,
              translated |-> <<>>, found |-> FALSE, delay |-> 0, log |-> <<>>]
    /\ RenderIdle

\* the text the loop over texts is at
Chunk == inp.texts[Len(out.results) + 1]

\* where the retry loop goes after attempt number out.attempt has failed
AfterFailure == IF out.attempt + 1 < inp.max_retries THEN "attempt" ELSE "append"

\* if not text.strip(): results.append(text); continue
PassBlank ==
    /\ pc = "chunk" /\ Len(out.results) < Len(inp.texts)
    /\ Strip(Chunk, SpaceCh) = <<>>
    /\ out' = [out EXCEPT !.results = Append(@, Chunk), !.calls = Append(@, 0),
                          !.log = <<>>]
    /\ UNCHANGED <<pc, inp, renderVars>>

\* protected_text, placeholders = protect_chess_notation(text); translated = None
ProtectChunk ==
    /\ pc = "chunk" /\ Len(out.results) < Len(inp.texts)
    /\ Strip(Chunk, SpaceCh) # <<>>
    /\ LET r == protect_chess_notation(Chunk)
       IN  out' = [out EXCEPT !.protected_text = r.protected,
                              !.placeholders = r.placeholders,
                              !.attempt = 0, !.translated = <<>>, !.found = FALSE,
                              !.candidate = <<>>, !.delay = 0, !.log = <<>>]
    /\ pc' = IF inp.max_retries > 0 THEN "attempt" ELSE "append"
    /\ UNCHANGED <<inp, renderVars>>

\* the API answers: candidate = (content or "").strip(), then
\* restore_chess_notation
ApiAnswers ==
    /\ pc = "attempt"
    /\ \E content \in Answers :
         out' = [out EXCEPT !.candidate = restore_chess_notation(Strip(content, SpaceCh),
                                                                 out.placeholders),
                            !.step = 1, !.delay = 0,
                            !.log = Append(@, "answer")]
    /\ pc' = "post"
    /\ UNCHANGED <<inp, renderVars>>

\* candidate = postprocess_translation(candidate, text), one assignment
Postprocess ==
    /\ pc = "post"
    /\ out' = [out EXCEPT !.candidate = PostprocessStep(out.step, @, Chunk),
                          !.step = IF @ = 13 THEN 0 ELSE @ + 1]
    /\ pc' = IF out.step = 13 THEN "judge" ELSE "post"
    /\ UNCHANGED <<inp, renderVars>>

\* the candidate is taken, and the loop goes on with the next attempt
AcceptCandidate_keepsTrying ==
    /\ pc = "judge"
    /\ out.candidate # <<>> /\ ~looks_like_refusal(out.candidate)
    /\ out' = [out EXCEPT !.translated = out.candidate, !.found = TRUE,
                          !.attempt = @ + 1,
                          !.log = [@ EXCEPT ![Len(@)] = "good"]]
    /\ pc' = AfterFailure
    /\ UNCHANGED <<inp, renderVars>>

\* if candidate and not looks_like_refusal(candidate): translated = candidate; break
AcceptCandidate ==
    /\ pc = "judge"
    /\ out.candidate # <<>> /\ ~looks_like_refusal(out.candidate)
    /\ out' = [out EXCEPT !.translated = out.candidate, !.found = TRUE,
                          !.log = [@ EXCEPT ![Len(@)] = "good"]]
    /\ pc' = "append"
    /\ UNCHANGED <<inp, renderVars>>

\* the test fails: the loop goes on with the next attempt
RejectCandidate ==
    /\ pc = "judge"
    /\ out.candidate = <<>> \/ looks_like_refusal(out.candidate)
    /\ out' = [out EXCEPT !.attempt = @ + 1, !.candidate = <<>>,
                          !.log = [@ EXCEPT ![Len(@)] =
                                     IF out.candidate = <<>> THEN "empty" ELSE "refusal"]]
    /\ pc' = AfterFailure
    /\ UNCHANGED <<inp, renderVars>>

\* the delay the handler computes for the exception exc: a set, for
\* random.uniform(0, 1) is one of its ends here; -1 where it raises
HandlerDelays(exc) ==
    IF _is_rate_limit_error(exc)
    THEN {_retry_delay_seconds(exc, out.attempt + 1)}
    ELSE {(2^(out.attempt)) * 1000000 + u : u \in {0, 1000000}}

\* except Exception as e: the delay is computed, and slept unless this was
\* the last attempt
ApiRaises ==
    /\ pc = "attempt"
    /\ \E exc \in Errors : \E delay \in HandlerDelays(exc) :
         /\ delay # -1
         /\ out' = [out EXCEPT !.attempt = @ + 1,
                               !.delay = IF out.attempt < inp.max_retries - 1 THEN delay ELSE 0,
                               !.log = Append(@, "exception")]
    /\ pc' = AfterFailure
    /\ UNCHANGED <<inp, renderVars>>

\* except Exception as e: float(match.group(1)) raises ValueError inside the
\* handler, and the exception leaves translate_chunks
HandlerRaises ==
    /\ pc = "attempt"
    /\ \E exc \in Errors : -1 \in HandlerDelays(exc)
    /\ out' = [out EXCEPT !.log = Append(@, "exception")]
    /\ pc' = "raised"
    /\ UNCHANGED <<inp, renderVars>>

\* results.append(translated if translated is not None else text)
AppendResult ==
    /\ pc = "append"
    /\ out' = [out EXCEPT !.results = Append(@, IF out.found THEN out.translated ELSE Chunk),
                          !.calls = Append(@, Len(out.log))]
    /\ pc' = "chunk"
    /\ UNCHANGED <<inp, renderVars>>

\* return results
ReturnResults ==
    /\ pc = "chunk" /\ Len(out.results) = Len(inp.texts)
    /\ pc' = "returned"
    /\ UNCHANGED <<inp, out, renderVars>>

TranslateNext ==
    \/ PassBlank \/ ProtectChunk \/ ApiAnswers \/ Postprocess \/ AcceptCandidate
    \/ RejectCandidate \/ ApiRaises \/ HandlerRaises \/ AppendResult \/ ReturnResults

SpecTranslate == TranslateInit /\ [][TranslateNext]_vars

\* the chunk whose result was appended last, and whether it is blank
Blank(text) == Strip(text, SpaceCh) = <<>>

\* C16: translate_chunks returns a list as long as its input, entry i
\* being the result for input i; blank entries are returned unchanged
\* without an API call; and the call never raises for API failures
C16_SameLengthNeverRaises ==
    /\ pc # "raised"
    /\ pc = "returned" =>
         /\ Len(out.results) = Len(inp.texts)
         /\ \A i \in 1..Len(inp.texts) :
              Blank(inp.texts[i]) => out.results[i] = inp.texts[i] /\ out.calls[i] = 0

RECURSIVE CollectRuns_everySpan(_, _, _)
\* every span with a text starts a run of its own
CollectRuns_everySpan(spans, k, runs) ==
    IF k > Len(spans) THEN runs
    ELSE CollectRuns_everySpan(spans, k + 1,
            IF spans[k].text = <<>> THEN runs
            ELSE Append(runs, [text |-> spans[k].text, bold |-> spans[k].is_bold]))

RECURSIVE CollectRuns(_, _, _)
\* the first loop of _coalesce_style_runs, at spans[k] with the runs so far
CollectRuns(spans, k, runs) ==
    LET txt  == spans[k].text
        bold == spans[k].is_bold
        last == runs[Len(runs)]
        \* runs[-1]["text"] += more
        Extended(more) == [runs EXCEPT ![Len(runs)].text = @ \o more]
    IN  IF k > Len(spans) THEN runs
        ELSE CollectRuns(spans, k + 1,
                IF txt = <<>> THEN runs
                ELSE IF runs # <<>> /\ last.bold = bold
                     THEN IF txt = <<" ">> THEN Extended(<<" ">>)
                          ELSE IF last.text # <<>>
                                  /\ last.text[Len(last.text)] \notin SpaceCh
                                  /\ txt[1] \notin SpaceCh
                               THEN Extended(<<" ">> \o txt)
                               ELSE Extended(txt)
                     ELSE Append(runs, [text |-> txt, bold |-> bold]))

RECURSIVE MergeAround(_, _)
\* the while loop of _coalesce_style_runs from runs[i] (0-based i): a bold
\* run, a non-bold run of whitespace only and a bold run become one bold run
MergeAround(runs, i) ==
    IF i >= Len(runs) THEN <<>>
    ELSE IF /\ runs[i + 1].bold
            /\ i + 2 < Len(runs)
            /\ Strip(runs[i + 2].text, SpaceCh) = <<>>
            /\ ~runs[i + 2].bold
            /\ runs[i + 3].bold
         THEN <<[text |-> runs[i + 1].text \o runs[i + 2].text \o runs[i + 3].text,
                 bold |-> TRUE]>> \o MergeAround(runs, i + 3)
         ELSE <<runs[i + 1]>> \o MergeAround(runs, i + 1)

\* r["text"] = r["text"].replace("­", "") for each run
WithoutSoftHyphens(runs) ==
    [x \in 1..Len(runs) |-> [runs[x] EXCEPT !.text = Replace(@, <<"U+00AD">>, <<>>)]]

_coalesce_style_runs(spans) ==
    MergeAround(WithoutSoftHyphens(CollectRuns(spans, 1, <<>>)), 0)

(***************************************************************************)
(* Specification SpecCoalesce: _coalesce_style_runs on a list of spans;    *)
(* one step for each of its three loops.                                   *)
(***************************************************************************)
MaxSpans == 5           \* longest list of spans

SpanTexts == { <<>>, <<" ">>, <<"a">>, <<"U+00AD">> }

CoalesceInit ==
    /\ pc = "spans"
    /\ inp \in [spans : UNION {[1..n -> [text : SpanTexts, is_bold : BOOLEAN]]
                               : n \in 0..MaxSpans}]
    /\ out = <<>>
    /\ RenderIdle

\* for sp in spans or []: ...
CollectSpans ==
    /\ pc = "spans"
    /\ out' = CollectRuns(inp.spans, 1, <<>>)
    /\ pc' = "runs"
    /\ UNCHANGED <<inp, renderVars>>

\* for r in runs: ...
RemoveSoftHyphens ==
    /\ pc = "runs"
    /\ out' = WithoutSoftHyphens(out)
    /\ pc' = "clean"
    /\ UNCHANGED <<inp, renderVars>>

\* while i < len(runs): ...; return merged
MergePass ==
    /\ pc = "clean"
    /\ out' = MergeAround(out, 0)
    /\ pc' = "merged"
    /\ UNCHANGED <<inp, renderVars>>

CoalesceNext == CollectSpans \/ RemoveSoftHyphens \/ MergePass

SpecCoalesce == CoalesceInit /\ [][CoalesceNext]_vars

\* C20: in the runs _coalesce_style_runs builds, and in the runs it returns
\* after the merge pass, no two adjacent runs have the same bold flag; an
\* empty list of spans gives an empty list of runs
C20_AdjacentRunsDiffer ==
    /\ pc \in {"runs", "clean", "merged"} =>
          \A x \in 1..(Len(out) - 1) : out[x].bold # out[x + 1].bold
    /\ (pc = "merged" /\ inp.spans = <<>>) => out = <<>>

\* the merge pass has joined a bold run, a blank run and a bold run, and
\* more than one run is returned
C20_Witness ==
    /\ pc = "merged" /\ Len(out) >= 2
    /\ Len(out) < Len(WithoutSoftHyphens(CollectRuns(inp.spans, 1, <<>>)))

(***************************************************************************)
(* chess_pdf/vision_corrections.py: the texts of a correction              *)
(***************************************************************************)
\* _SPECIAL_SYMBOL_MAP: the replacement of one character
SpecialOf(c) ==
    CASE c \in {"U+FEFF", "U+00AD"} -> <<>>
      [] c \in {"U+00A0", "U+2007", "U+2009", "U+200A", "U+202F"} -> <<" ">>
      [] c = "±" -> <<"+","/","-">>
      [] c \in {"·", "U+2219"} -> <<".">>
      [] c \in {"»", "«", "U+201C", "U+201D", "U+201E", "U+2033"} -> <<"\"">>
      [] c \in {"×", "U+2715"} -> <<"x">>
      [] c = "÷" -> <<":">>
      [] c \in {"U+2010", "U+2011", "U+2012", "U+2013", "U+2014", "U+2015", "U+2212"} -> <<"-">>
      [] c \in {"U+2018", "U+2019", "U+201A", "U+2032"} -> <<"'">>
      [] c = "U+2026" -> <<".",".",".">>
      [] c \in {"U+2020", "U+2021", "U+271D", "U+271E"} -> <<"+">>
      [] c = "U+2213" -> <<"-","/","+">>
      [] c = "U+221E" -> <<"?">>
      [] c \in {"U+2190"} -> <<"<","-">>
      [] c \in {"U+2192", "U+21D2"} -> <<"-",">">>
      [] c \in {"U+2194", "U+21D4"} -> <<"<","-",">">>

\* _ALLOWED_PUNCTUATION (U+0060 is the grave accent)
PunctuationCh ==
    {".", ",", ":", ";", "!", "?", "(", ")", "[", "]", "{", "}", "\"", "'", "U+0060", "+", "-",
     "=", "*", "/", "\\", "#", "%", "@", "&", "$", "^", "_", "|", "~", "<", ">"}

\* _POLISH_LETTERS
PolishCh ==
    {"U+0104", "U+0106", "U+0118", "U+0141", "U+0143", "Ó", "U+015A", "U+0179", "U+017B",
     "U+0105", "U+0107", "U+0119", "U+0142", "U+0144", "ó", "U+015B", "U+017A", "U+017C"}

\* the characters _is_allowed_character accepts
AllowedCh ==
    {" ", "\n"} \cup PunctuationCh \cup PolishCh \cup LowerCh \cup UpperCh \cup DigitCh

_normalize_transcribed_text(text) ==
    LET \* the loop over the characters
        Kept(c) ==
            IF c = "\r" THEN <<>>
            ELSE IF c = "\t" THEN <<" ">>
            ELSE IF c \in {"U+2654", "U+2655", "U+2656", "U+2657", "U+2658", "U+2659",
                           "U+265A", "U+265B", "U+265C", "U+265D", "U+265E", "U+265F"}
                 THEN FigurineOf(c)
            ELSE IF c \in {"U+FEFF", "U+00A0", "U+00AD", "±", "·", "»", "«",
                           "×", "÷", "U+2007", "U+2009", "U+200A", "U+2010", "U+2011",
                           "U+2012", "U+2013", "U+2014", "U+2015", "U+2018", "U+2019", "U+201A",
                           "U+201C", "U+201D", "U+201E", "U+2026", "U+202F", "U+2032", "U+2033",
                           "U+2020", "U+2021", "U+271D", "U+271E", "U+2212", "U+2213", "U+221E",
                           "U+2219", "U+2190", "U+2192", "U+2194", "U+21D2", "U+21D4", "U+2715"}
                 THEN SpecialOf(c)
            ELSE IF c \in AllowedCh THEN <<c>> ELSE <<>>
    IN  IF text = <<>> THEN text
        ELSE SubAll(<<
            \* \+\s*/\s*-
            <<Cat(<<Ch("+"), Star(Ws), Ch("/"), Star(Ws), Ch("-")>>), <<L(<<"+","/","-">>)>> >>,
            \* -\s*/\s*\+
            <<Cat(<<Ch("-"), Star(Ws), Ch("/"), Star(Ws), Ch("+")>>), <<L(<<"-","/","+">>)>> >>,
            \* \b(\d+)\.\.(?=[^\.\s])
            <<Cat(<<WB, Grp(1, Plus(Dg)), Lit(<<".",".">>), LookAhead(NSet({"."} \cup SpaceCh))>>),
              <<G(1), L(<<".",".",".">>)>> >> >>,
            1,
            Replace(Replace(
                \* while "  " in normalized: normalized = normalized.replace("  ", " ")
                Sub(Rep(Ch(" "), 2, -1), <<L(<<" ">>)>>,
                    Flat([x \in 1..Len(text) |-> Kept(text[x])])),
                <<" ","\n">>, <<"\n">>), <<"\n"," ">>, <<"\n">>))

\* TARGET_BOLD_FONT.lower() without " ", "-" and "_"
TARGET_BOLD_FONT == <<"f","d","5","2","0","5","2","1">>

_is_bold_font(font_name) ==
    LET fname == [x \in 1..Len(font_name) |->
                    IF font_name[x] \in UpperCh
                    THEN LowerSeq[CHOOSE z \in 1..26 : UpperSeq[z] = font_name[x]]
                    ELSE font_name[x]]
    IN  /\ font_name # <<>>
        /\ \/ Contains(SelectSeq(fname, LAMBDA c : c \notin {" ", "-", "_"}), TARGET_BOLD_FONT)
           \/ \E keyword \in {<<"b","o","l","d">>, <<"s","e","m","i","b","o","l","d">>, <<"d","e","m","i">>, <<"b","l","a","c","k">>} :
                Contains(fname, keyword)

\* a span is the record of its keys: is_bold is "True", "False" or "None"
\* (no such key), rect is a fitz.Rect, a list or None with its four numbers
_sanitize_span_copy(span) ==
    [span EXCEPT !.rect = IF @.kind = "Rect" THEN [kind |-> "list", v |-> @.v] ELSE @,
                 !.is_bold = IF @ = "None"
                             THEN (IF _is_bold_font(span.font) THEN "True" ELSE "False")
                             ELSE @]

RECURSIVE TagFragments(_, _, _, _, _)
\* the loop of _auto_tag_bold_spans over merged[k..]: the record of
\* tagged_parts joined, cursor and any_tagged
TagFragments(merged, k, new_text, cursor, parts) ==
    LET \* re.escape(fragment) with "\ " replaced by \s+, under re.IGNORECASE
        regex == Cat([x \in 1..Len(merged[k].text) |->
                        IF merged[k].text[x] = " " THEN Plus(Ws)
                        ELSE ISet({merged[k].text[x]})])
        \* regex.search(new_text, cursor) or regex.search(new_text)
        OrFromStart(m) == IF m.st # -1 THEN m ELSE SearchFrom(regex, new_text, 0)
        Tagged(m) ==
            IF m.st = -1 THEN TagFragments(merged, k + 1, new_text, cursor, parts)
            ELSE TagFragments(merged, k + 1, new_text, m.e,
                    [text |-> parts.text \o Slice(new_text, cursor, m.st)
                                \o (IF merged[k].is_bold
                                    THEN B_START \o Slice(new_text, m.st, m.e) \o B_END
                                    ELSE Slice(new_text, m.st, m.e)),
                     any_tagged |-> parts.any_tagged \/ merged[k].is_bold])
    IN  IF k > Len(merged)
        THEN [text |-> parts.text \o Slice(new_text, cursor, Len(new_text)),
              any_tagged |-> parts.any_tagged]
        ELSE Tagged(OrFromStart(SearchFrom(regex, new_text, cursor)))

RECURSIVE TagTokens(_, _, _, _, _)
\* the loop of _auto_tag_bold_spans over bold_tokens[k..]: result_parts
\* joined
TagTokens(bold_tokens, k, new_text, cursor, parts) ==
    LET Lower(s) == [x \in 1..Len(s) |->
                       IF s[x] \in UpperCh
                       THEN LowerSeq[CHOOSE z \in 1..26 : UpperSeq[z] = s[x]] ELSE s[x]]
        token == bold_tokens[k]
        first == Find(Lower(new_text), Lower(token), cursor)
        idx   == IF first # -1 THEN first ELSE Find(Lower(new_text), Lower(token), 0)
    IN  IF k > Len(bold_tokens) THEN parts \o Slice(new_text, cursor, Len(new_text))
        ELSE IF idx # -1 /\ (idx < Len(B_START)
                             \/ Slice(new_text, idx - Len(B_START), idx) # B_START)
             THEN TagTokens(bold_tokens, k + 1, new_text, idx + Len(token),
                            parts \o Slice(new_text, cursor, idx) \o B_START
                            \o Slice(new_text, idx, idx + Len(token)) \o B_END)
             ELSE TagTokens(bold_tokens, k + 1, new_text, cursor, parts)

RECURSIVE MergeInfos(_, _, _)
\* span_infos and merged of _auto_tag_bold_spans: the spans with a text
\* join the last entry of the same boldness
MergeInfos(original_spans, k, merged) ==
    LET span       == original_spans[k]
        normalized == Strip(_normalize_transcribed_text(span.text), SpaceCh)
        is_bold    == span.is_bold = "True" \/ _is_bold_font(span.font)
    IN  IF k > Len(original_spans) THEN merged
        ELSE MergeInfos(original_spans, k + 1,
                IF Strip(span.text, SpaceCh) = <<>> \/ normalized = <<>> THEN merged
                ELSE IF merged # <<>> /\ merged[Len(merged)].is_bold = is_bold
                     THEN [merged EXCEPT ![Len(merged)].text = @ \o normalized]
                     ELSE Append(merged, [text |-> normalized, is_bold |-> is_bold]))

_auto_tag_bold_spans(original_spans, old_text, new_text) ==
    LET merged == MergeInfos(original_spans, 1, <<>>)
        result == TagFragments(merged, 1, new_text, 0, [text |-> <<>>, any_tagged |-> FALSE])
        \* _extract_move_tokens of the bold entries: \d{1,3}\.{1,3}[^\s]+
        Found(ms, s) == [x \in 1..Len(ms) |-> GroupText(s, ms[x], 0)]
        bold_tokens ==
            Flat([x \in 1..Len(merged) |->
                    IF merged[x].is_bold
                    THEN Found(FindIter(Cat(<<Rep(Dg, 1, 3), Rep(Ch("."), 1, 3), Plus(NonWs)>>),
                                        merged[x].text, 0), merged[x].text)
                    ELSE <<>>])
        candidate == TagTokens(bold_tokens, 1, new_text, 0, <<>>)
    IN  IF new_text = <<>> \/ original_spans = <<>> \/ merged = <<>> THEN new_text
        ELSE IF ~result.any_tagged /\ bold_tokens # <<>> /\ candidate # new_text THEN candidate
        ELSE result.text

(***************************************************************************)
(* Specification SpecVision: calls of correct_page on the blocks of a      *)
(* page.  The blocks are as extract_text_blocks makes them: a text, a      *)
(* bbox and a list of spans.  Spans are objects: out.heap is the sequence  *)
(* of the span dictionaries made so far, and a list of spans is the list   *)
(* of their places in it, so that two lists can hold the same dictionary.  *)
(* The vision API is the environment: it gives any of VisionTexts for any  *)
(* candidate, any number of times during a call.                           *)
(***************************************************************************)
MaxVisionBlocks == 2    \* most blocks on a page
MaxCalls == 2           \* calls of correct_page on the same blocks

TextRect == [kind |-> "Rect", v |-> <<0, 0, 10, 10>>]

VisionBlocks ==
    { [text |-> <<"1","."," ","e","4"," ","o","k">>,
       spans |-> << [text |-> <<"1",".">>, is_bold |-> "True", font |-> <<"T","i","m","e","s","-","B","o","l","d">>,
                     rect |-> TextRect, vision_corrected |-> FALSE],
                    [text |-> <<" ","e","4"," ","o","k">>, is_bold |-> "False", font |-> <<"T","i","m","e","s">>,
                     rect |-> TextRect, vision_corrected |-> FALSE] >>],
      [text |-> <<" ">>,
       spans |-> << [text |-> <<"\n">>, is_bold |-> "False", font |-> <<>>,
                     rect |-> [kind |-> "None", v |-> <<>>], vision_corrected |-> FALSE] >>],
      [text |-> <<"N","f","3">>,
       spans |-> << [text |-> <<"N","f","3">>, is_bold |-> "None", font |-> <<"A","r","i","a","l"," ","B","l","a","c","k">>,
                     rect |-> TextRect, vision_corrected |-> FALSE] >>],
      [text |-> <<"x">>, spans |-> <<>>] }

VisionTexts ==
    { <<>>, <<"1","."," ","e","5"," ","o","k">>,
      <<"[","[","B","]","]">> \o <<"U+2658">> \o <<"f","3","[","[","/","B","]","]"," "," ","o","k">> }

\* the places in the heap of the spans of inp.blocks[i]
InitialIds(i) ==
    LET before == SumLen([x \in 1..(i - 1) |-> inp.blocks[x].spans])
    IN  [k \in 1..Len(inp.blocks[i].spans) |-> before + k]

VisionInit ==
    /\ pc = "idle"
    /\ inp \in [blocks : UNION {[1..n -> VisionBlocks] : n \in 1..MaxVisionBlocks}]
    /\ out = [blocks |-> [i \in 1..Len(inp.blocks) |->
                            [text |-> inp.blocks[i].text, spans |-> InitialIds(i),
                             translated_marked |-> [has |-> FALSE, v |-> <<>>],
                             ocr |-> [has |-> FALSE, ids |-> <<>>],
                             style |-> [has |-> FALSE, ids |-> <<>>]]],
              heap |-> Flat([i \in 1..Len(inp.blocks) |-> inp.blocks[i].spans]),
              candidates |-> <<>>, calls |-> 0]
    /\ RenderIdle

RECURSIVE Collected_sameDictionaries(_, _)
\* the backups are the list of the live dictionaries themselves
Collected_sameDictionaries(st, k) ==
    LET b == st.blocks[k]
    IN  IF k > Len(st.blocks) THEN st
        ELSE Collected_sameDictionaries(
                [st EXCEPT !.blocks[k].ocr = IF b.ocr.has THEN @
                                             ELSE [has |-> TRUE, ids |-> b.spans],
                           !.blocks[k].style = IF b.style.has THEN @
                                               ELSE [has |-> TRUE, ids |-> b.spans]],
                k + 1)

RECURSIVE Collected(_, _)
\* the state of the blocks after _collect_candidates has looked at the
\* blocks k..: the two backups are written where they are missing, each a
\* list of new dictionaries
Collected(st, k) ==
    LET b      == st.blocks[k]
        copies == [x \in 1..Len(b.spans) |-> _sanitize_span_copy(st.heap[b.spans[x]])]
        n      == Len(b.spans)
        \* the heap after the first backup, and the places of the two backups
        first  == IF b.ocr.has THEN 0 ELSE n
    IN  IF k > Len(st.blocks) THEN st
        ELSE Collected(
                [st EXCEPT !.heap = @ \o (IF b.ocr.has THEN <<>> ELSE copies)
                                      \o (IF b.style.has THEN <<>> ELSE copies),
                           !.blocks[k].ocr =
                               IF b.ocr.has THEN @
                               ELSE [has |-> TRUE,
                                     ids |-> [x \in 1..n |-> Len(st.heap) + x]],
                           !.blocks[k].style =
                               IF b.style.has THEN @
                               ELSE [has |-> TRUE,
                                     ids |-> [x \in 1..n |-> Len(st.heap) + first + x]]],
                k + 1)

\* the candidates _collect_candidates yields: the blocks with a text (the
\* bbox is there, and include_all is either value: a text of more than 300
\* characters is looked at for notation)
Candidates(include_all) ==
    LET Text(i) == Strip(out.blocks[i].text, SpaceCh)
        \* \d|[a-h][1-8]|[KQRBN]|[!?+#]|\.\.\.
        has_notation(t) ==
            SearchFrom(Alt(<<Dg, Square, Set(PieceCh), Set({"!", "?", "+", "#"}),
                             Lit(<<".",".",".">>)>>), t, 0).st # -1
        \* any(ord(ch) > 127 for ch in text)
        has_special(t) == \E x \in 1..Len(t) : t[x] \notin (AllowedCh \ PolishCh) \cup SpaceCh
        Yielded(i) ==
            /\ Text(i) # <<>>
            /\ ~((~include_all) /\ Len(Text(i)) > 300
                 /\ ~has_notation(Text(i)) /\ ~has_special(Text(i)))
    IN  [x \in 1..Cardinality({i \in 1..Len(out.blocks) : Yielded(i)}) |->
            LET i == CHOOSE j \in 1..Len(out.blocks) :
                        /\ Yielded(j)
                        /\ Cardinality({h \in 1..j : Yielded(h)}) = x
            IN  [block_index |-> i, text |-> Text(i)]]

\* candidates = list(_collect_candidates(blocks)), at the start of a call
CollectCandidates ==
    /\ pc = "idle" /\ out.calls < MaxCalls
    /\ \E include_all \in BOOLEAN :
         out' = [Collected(out, 1) EXCEPT !.candidates = Candidates(include_all)]
    /\ pc' = "correcting"
    /\ UNCHANGED <<inp, renderVars>>

\* the block and the heap after the last lines of _apply_correction: the
\* text and translated_marked are set, and every live span (the copies of
\* the backup where the block has no spans) is marked and rewritten
Corrected(i, text, add_markers) ==
    LET block == out.blocks[i]
        \* spans = block.get("spans") or [], or copies of the backup
        from_backup == block.spans = <<>> /\ block.ocr.has /\ block.ocr.ids # <<>>
        copies  == IF from_backup
                   THEN [x \in 1..Len(block.ocr.ids) |->
                           _sanitize_span_copy(out.heap[block.ocr.ids[x]])]
                   ELSE <<>>
        spans   == IF from_backup
                   THEN [x \in 1..Len(copies) |-> Len(out.heap) + x]
                   ELSE block.spans
        heap    == out.heap \o copies
    IN  [out EXCEPT
            !.blocks[i].text = text,
            !.blocks[i].translated_marked =
                IF add_markers THEN [has |-> TRUE, v |-> text]
                ELSE [has |-> FALSE, v |-> <<>>],
            !.blocks[i].spans = spans,
            !.heap = [x \in 1..Len(heap) |->
                        IF x \in Range(spans)
                        THEN [heap[x] EXCEPT !.vision_corrected = TRUE,
                                             !.text = IF spans[1] = x THEN text ELSE <<>>]
                        ELSE heap[x]]]

\* _apply_correction(cand, new_text, add_markers=...) for a candidate of
\* this call and a text of the API
ApplyCorrection ==
    /\ pc = "correcting"
    /\ \E c \in 1..Len(out.candidates), new_text \in VisionTexts, add_markers \in BOOLEAN :
       \E cleaned \in {Strip(_normalize_transcribed_text(new_text), SpaceCh)} :
         LET i       == out.candidates[c].block_index
             block   == out.blocks[i]
             has_vision_markers == Contains(cleaned, B_START) \/ Contains(cleaned, B_END)
             \* block.get("_ocr_spans_backup") or block.get("spans", [])
             original_spans ==
                 LET ids == IF block.ocr.has /\ block.ocr.ids # <<>> THEN block.ocr.ids
                            ELSE block.spans
                 IN  [x \in 1..Len(ids) |-> out.heap[ids[x]]]
             new_text_with_bold ==
                 IF add_markers
                 THEN IF has_vision_markers \/ original_spans = <<>> THEN cleaned
                      ELSE _auto_tag_bold_spans(original_spans, block.text, cleaned)
                 ELSE Replace(Replace(cleaned, B_START, <<>>), B_END, <<>>)
         IN  /\ cleaned # <<>>
             /\ \E text \in {new_text_with_bold} : out' = Corrected(i, text, add_markers)
    /\ UNCHANGED <<pc, inp, renderVars>>

\* correct_page returns
FinishCorrectPage ==
    /\ pc = "correcting"
    /\ out' = [out EXCEPT !.calls = @ + 1, !.candidates = <<>>]
    /\ pc' = "idle"
    /\ UNCHANGED <<inp, renderVars>>

VisionNext == CollectCandidates \/ ApplyCorrection \/ FinishCorrectPage

SpecVision == VisionInit /\ [][VisionNext]_vars

\* the dictionaries a list of places stands for
Dicts(ids) == [x \in 1..Len(ids) |-> out.heap[ids[x]]]

\* the spans of block i before any correction, as _sanitize_span_copy
\* copies them
PreCorrection(i) ==
    [x \in 1..Len(inp.blocks[i].spans) |-> _sanitize_span_copy(inp.blocks[i].spans[x])]

\* C19: a step that overwrites the text or the spans of a block finds both
\* backups on the block; a backup holds the copies of the spans the block
\* had before any correction, whatever corrections and calls have followed;
\* and no dictionary of a backup is a dictionary of the live spans or of the
\* other backup
C19_BackupBeforeOverwrite ==
    /\ [](\A i \in 1..Len(out.blocks) :
            LET b == out.blocks[i]
            IN  /\ b.ocr.has => Dicts(b.ocr.ids) = PreCorrection(i)
                /\ b.style.has => Dicts(b.style.ids) = PreCorrection(i)
                /\ Range(b.ocr.ids) \cap Range(b.spans) = {}
                /\ Range(b.style.ids) \cap Range(b.spans) = {}
                /\ Range(b.ocr.ids) \cap Range(b.style.ids) = {})
    /\ [][\A i \in 1..Len(out.blocks) :
            (\/ out'.blocks[i].text # out.blocks[i].text
             \/ [x \in 1..Len(out'.blocks[i].spans) |-> out'.heap[out'.blocks[i].spans[x]]]
                  # Dicts(out.blocks[i].spans))
            => out.blocks[i].ocr.has /\ out.blocks[i].style.has]_vars

\* in a second call a correction has rewritten the live spans of a block
\* of two spans, whose backups are as they were written
C19_Witness ==
    /\ out.calls = 1 /\ pc = "correcting"
    /\ \E i \in 1..Len(out.blocks) :
         /\ Len(out.blocks[i].spans) = 2
         /\ out.heap[out.blocks[i].spans[1]].vision_corrected
         /\ out.heap[out.blocks[i].spans[1]].text # inp.blocks[i].spans[1].text
         /\ out.heap[out.blocks[i].spans[2]].text = <<>>
         /\ Dicts(out.blocks[i].ocr.ids) = PreCorrection(i)

(***************************************************************************)
(* chess_pdf/translation_core.py: the runs of a block and                  *)
(* translate_blocks_intelligent                                            *)
(***************************************************************************)
\* _snap_cut_to_boundary with window=24; offsets are Python's (0-based)
_snap_cut_to_boundary(text, raw_cut, lo, hi) ==
    LET cut == Max(lo, Min(hi, raw_cut))
        \* text[p - 1].isspace() or (p < len(text) and text[p].isspace())
        AtSpace(p) == text[p] \in SpaceCh \/ (p < Len(text) /\ text[p + 1] \in SpaceCh)
        Left(delta)  == cut - delta > lo /\ AtSpace(cut - delta)
        Right(delta) == cut + delta < hi /\ AtSpace(cut + delta)
        deltas == {delta \in 1..24 : Left(delta) \/ Right(delta)}
        first  == CHOOSE delta \in deltas : \A d \in deltas : delta <= d
    IN  IF cut <= lo \/ cut >= hi THEN cut
        ELSE IF AtSpace(cut) THEN cut
        ELSE IF deltas = {} THEN cut
        ELSE IF Left(first) THEN cut - first ELSE cut + first

\* int(round(n / d)) for n >= 0 and d > 0: a half goes to the even number
RoundedRatio(n, d) ==
    LET q == n \div d
        r == n % d
    IN  IF 2 * r < d THEN q
        ELSE IF 2 * r > d THEN q + 1
        ELSE IF q % 2 = 0 THEN q ELSE q + 1

RECURSIVE ProjectCuts(_, _, _, _, _)
\* the loop over weights[:-1] of _project_style_runs_onto_text, from the
\* k-th run: the list cuts
ProjectCuts(style_runs, target_text, k, cumulative, cuts) ==
    LET Weight(x) == Max(1, Len(style_runs[x].text))
        \* total = max(1, sum(weights))
        total     == Max(1, SumLen([x \in 1..Len(style_runs) |->
                                      IF style_runs[x].text = <<>> THEN <<"">>
                                      ELSE style_runs[x].text]))
        prev      == IF cuts = <<>> THEN 0 ELSE cuts[Len(cuts)]
        snapped   == _snap_cut_to_boundary(target_text,
                        RoundedRatio(Len(target_text) * (cumulative + Weight(k)), total),
                        prev, Len(target_text))
    IN  IF k >= Len(style_runs) THEN cuts
        ELSE ProjectCuts(style_runs, target_text, k + 1, cumulative + Weight(k),
                         Append(cuts, Max(snapped, prev)))

RECURSIVE ProjectSegments_noMerge(_, _, _, _, _)
\* every segment with a text is appended as it is
ProjectSegments_noMerge(style_runs, target_text, ends, k, projected) ==
    LET cursor  == IF k = 1 THEN 0 ELSE ends[k - 1]
        segment == Slice(target_text, cursor, ends[k])
    IN  IF k > Len(style_runs) THEN projected
        ELSE ProjectSegments_noMerge(style_runs, target_text, ends, k + 1,
                IF segment = <<>> THEN projected
                ELSE Append(projected, [text |-> segment, bold |-> style_runs[k].bold]))

RECURSIVE ProjectSegments(_, _, _, _, _)
\* the loop over zip(style_runs, cuts + [text_len]), from the k-th pair:
\* the list projected
ProjectSegments(style_runs, target_text, ends, k, projected) ==
    LET cursor  == IF k = 1 THEN 0 ELSE ends[k - 1]
        segment == Slice(target_text, cursor, ends[k])
        bold    == style_runs[k].bold
    IN  IF k > Len(style_runs) THEN projected
        ELSE ProjectSegments(style_runs, target_text, ends, k + 1,
                IF segment = <<>> THEN projected
                ELSE IF projected # <<>> /\ projected[Len(projected)].bold = bold
                     THEN [projected EXCEPT ![Len(projected)].text = @ \o segment]
                     ELSE Append(projected, [text |-> segment, bold |-> bold]))

_project_style_runs_onto_text(style_runs, target_text) ==
    LET projected ==
            ProjectSegments(style_runs, target_text,
                Append(ProjectCuts(style_runs, target_text, 1, 0, <<>>), Len(target_text)),
                1, <<>>)
    IN  IF target_text = <<>> THEN <<>>
        ELSE IF style_runs = <<>> THEN << [text |-> target_text, bold |-> FALSE] >>
        ELSE IF Len(style_runs) = 1
             THEN << [text |-> target_text, bold |-> style_runs[1].bold] >>
        ELSE IF projected # <<>> THEN projected
        ELSE << [text |-> target_text, bold |-> FALSE] >>

\* _build_runs_from_block taking the OCR backup ahead of the style backup
_build_runs_from_block_ocrFirst(block) ==
    LET text == block.text
        style_spans == IF block._ocr_spans_backup # <<>> THEN block._ocr_spans_backup
                       ELSE IF block._style_spans_backup # <<>> THEN block._style_spans_backup
                       ELSE block.spans
        style_runs == _coalesce_style_runs(style_spans)
        OnlyText   == IF text # <<>> THEN << [text |-> text, bold |-> FALSE] >> ELSE <<>>
    IN  IF style_spans = <<>> THEN OnlyText
        ELSE IF style_runs = <<>> THEN OnlyText
        ELSE IF text = <<>> THEN style_runs
        ELSE IF Flat([x \in 1..Len(style_runs) |-> style_runs[x].text]) = text THEN style_runs
        ELSE _project_style_runs_onto_text(style_runs, text)

\* a block is the record of its text, its spans and its two backups of
\* spans; <<>> is also a missing or a None value
_build_runs_from_block(block) ==
    LET text == block.text
        style_spans == IF block._style_spans_backup # <<>> THEN block._style_spans_backup
                       ELSE IF block._ocr_spans_backup # <<>> THEN block._ocr_spans_backup
                       ELSE block.spans
        style_runs == _coalesce_style_runs(style_spans)
        OnlyText   == IF text # <<>> THEN << [text |-> text, bold |-> FALSE] >> ELSE <<>>
    IN  IF style_spans = <<>> THEN OnlyText
        ELSE IF style_runs = <<>> THEN OnlyText
        ELSE IF text = <<>> THEN style_runs
        ELSE IF Flat([x \in 1..Len(style_runs) |-> style_runs[x].text]) = text THEN style_runs
        ELSE _project_style_runs_onto_text(style_runs, text)

\* _HEADLINE_AFTER_BOLD_RE.sub(r'\1\n', marked) with the pattern
\* (\[\[B\]\]\s*(?:\d{1,3}\s*(?:\.\.\.|\.))[^[]*?\[\[\/B\]\])(?!\s*\n)
_force_newline_after_bold_headings(marked) ==
    Sub(Cat(<<Grp(1, Cat(<<Lit(B_START), Star(Ws), Rep(Dg, 1, 3), Star(Ws),
                           Alt(<<Lit(<<".",".",".">>), Ch(".")>>), LazyStar(NSet({"["})),
                           Lit(B_END)>>)),
              NegLookAhead(Cat(<<Star(Ws), Ch("\n")>>))>>),
        <<G(1), L(<<"\n">>)>>, marked)

\* the three assignments tr = ... of the loop over translated_list, the
\* first of them the assignments of postprocess_translated_marked: the
\* value the k-th step gives tr for the runs of the block
ItemSteps == 1..17

ItemStep(k, tr, runs) ==
    CASE k \in TransformSteps -> Transform(k, tr)
      [] k = 16 -> _reapply_bold_markers(runs, tr)
      [] k = 17 -> _force_newline_after_bold_headings(tr)

\* the first step that runs on tr: postprocess_translated_marked returns an
\* empty text at once
FirstItemStep(tr) == IF tr = <<>> THEN 16 ELSE 1

(***************************************************************************)
(* Specification SpecBlocks: translate_blocks_intelligent on the blocks    *)
(* of a page, with a translator that raises an exception or returns one    *)
(* text for each payload.  The texts are ASCII.                            *)
(***************************************************************************)
MaxTextBlocks == 3      \* most blocks on a page

TextBlocks ==
    { \* the text is the text of the spans
      [text |-> <<"1","."," ","e","4"," ","o","k">>,
       spans |-> << [text |-> <<"1",".">>, is_bold |-> TRUE], [text |-> <<" ","e","4"," ","o","k">>, is_bold |-> FALSE] >>,
       _style_spans_backup |-> <<>>, _ocr_spans_backup |-> <<>>],
      \* nothing: no text and no span
      [text |-> <<" ">>, spans |-> <<>>, _style_spans_backup |-> <<>>, _ocr_spans_backup |-> <<>>],
      \* a corrected text, the spans of the page in the backups
      [text |-> <<"2",".","N","f","3"," ","i","s"," ","g","o","o","d">>,
       spans |-> << [text |-> <<"2",".","N","f","3"," ","i","s"," ","g","o","o","d">>, is_bold |-> TRUE], [text |-> <<>>, is_bold |-> FALSE] >>,
       _style_spans_backup |-> << [text |-> <<"2",".","N","g","3">>, is_bold |-> TRUE],
                                  [text |-> <<" ","i","s"," ","g","o","d">>, is_bold |-> FALSE] >>,
       _ocr_spans_backup |-> << [text |-> <<"2",".","N","g","3">>, is_bold |-> TRUE],
                                [text |-> <<" ","i","s"," ","g","o","d">>, is_bold |-> FALSE] >>],
      \* a text without spans
      [text |-> <<"x">>, spans |-> <<>>, _style_spans_backup |-> <<>>, _ocr_spans_backup |-> <<>>],
      \* spans without a text
      [text |-> <<>>, spans |-> << [text |-> <<"P","l","a","n">>, is_bold |-> TRUE] >>,
       _style_spans_backup |-> <<>>, _ocr_spans_backup |-> <<>>] }

\* what the translator returns for a payload
Translations == { <<"[","[","B","]","]","1",".","[","[","/","B","]","]"," ","e","4"," ","d","o","b","r","e">> }

BlocksInit ==
    /\ pc = "payloads"
    /\ inp \in [blocks : UNION {[1..n -> TextBlocks] : n \in 0..MaxTextBlocks}]
    /\ out = [blocks |-> [i \in 1..Len(inp.blocks) |->
                            [translated_marked |-> [has |-> FALSE, v |-> <<>>],
                             translated |-> [has |-> FALSE, v |-> <<>>]]],
              i |-> 1, payloads |-> <<>>, idx_map |-> <<>>,
              runs_map |-> [i \in 1..Len(inp.blocks) |-> [has |-> FALSE, v |-> <<>>]],
              translated_list |-> <<>>, raised |-> FALSE, j |-> 1, step |-> 0, tr |-> <<>>]
    /\ RenderIdle

\* if not src and not b.get("spans"): b["translated_marked"] = ""; continue
SkipEmptyBlock ==
    /\ pc = "payloads" /\ out.i <= Len(inp.blocks)
    /\ Strip(inp.blocks[out.i].text, SpaceCh) = <<>> /\ inp.blocks[out.i].spans = <<>>
    /\ out' = [out EXCEPT !.blocks[out.i].translated_marked = [has |-> TRUE, v |-> <<>>],
                          !.i = @ + 1]
    /\ UNCHANGED <<pc, inp, renderVars>>

\* the rest of the body of the first loop
AppendPayload ==
    /\ pc = "payloads" /\ out.i <= Len(inp.blocks)
    /\ ~(Strip(inp.blocks[out.i].text, SpaceCh) = <<>> /\ inp.blocks[out.i].spans = <<>>)
    /\ \E runs \in {_build_runs_from_block(inp.blocks[out.i])} :
         out' = [out EXCEPT !.payloads = Append(@, _runs_to_marked_text(runs)),
                            !.idx_map = Append(@, out.i),
                            !.runs_map[out.i] = [has |-> TRUE, v |-> runs],
                            !.i = @ + 1]
    /\ UNCHANGED <<pc, inp, renderVars>>

\* the first loop ends; without payloads the translator is not called
EndPayloads ==
    /\ pc = "payloads" /\ out.i > Len(inp.blocks)
    /\ pc' = IF out.payloads # <<>> THEN "translate" ELSE "plain"
    /\ UNCHANGED <<inp, out, renderVars>>

\* the j-th translation is for the j-th block
BlockOf_position(j) == j

\* idx_map[j]: the block the j-th translation is for
BlockOf(j) == out.idx_map[j]

\* the state when the loop over translated_list takes its j-th text
NextItem(st, j) ==
    IF j <= Len(st.translated_list)
    THEN [st EXCEPT !.j = j, !.tr = st.translated_list[j],
                    !.step = FirstItemStep(st.translated_list[j])]
    ELSE [st EXCEPT !.j = j, !.tr = <<>>, !.step = 0]

\* translator.translate_chunks(payloads) returns a text for each payload
TranslatorReturns ==
    /\ pc = "translate"
    /\ \E translated_list \in [1..Len(out.payloads) -> Translations] :
         out' = NextItem([out EXCEPT !.translated_list = translated_list], 1)
    /\ pc' = "items"
    /\ UNCHANGED <<inp, renderVars>>

\* except Exception: translated_list = payloads
TranslatorRaises ==
    /\ pc = "translate"
    /\ out' = NextItem([out EXCEPT !.translated_list = out.payloads, !.raised = TRUE], 1)
    /\ pc' = "items"
    /\ UNCHANGED <<inp, renderVars>>

\* tr = <step>(tr), with runs_map.get(idx_map[j], []) for the runs
ApplyItemStep ==
    /\ pc = "items" /\ out.j <= Len(out.translated_list)
    /\ out.step \in ItemSteps
    /\ LET runs == IF BlockOf(out.j) \in DOMAIN out.runs_map /\ out.runs_map[BlockOf(out.j)].has
                   THEN out.runs_map[BlockOf(out.j)].v ELSE <<>>
       IN  out' = [out EXCEPT !.tr = ItemStep(out.step, out.tr, runs), !.step = @ + 1]
    /\ UNCHANGED <<pc, inp, renderVars>>

\* blocks[idx_map[j]]["translated_marked"] = tr
AssignTranslatedMarked ==
    /\ pc = "items" /\ out.j <= Len(out.translated_list)
    /\ out.step \notin ItemSteps
    /\ out' = NextItem([out EXCEPT !.blocks[BlockOf(out.j)].translated_marked =
                                       [has |-> TRUE, v |-> out.tr]], out.j + 1)
    /\ UNCHANGED <<pc, inp, renderVars>>

\* the loop over translated_list ends
EndItems ==
    /\ pc = "items" /\ out.j > Len(out.translated_list)
    /\ pc' = "plain"
    /\ UNCHANGED <<inp, out, renderVars>>

\* the last loop and return blocks: tm = b.get("translated_marked", "") or ""
\* and b["translated"] = tm.replace(B_START, "").replace(B_END, "")
SetTranslated ==
    /\ pc = "plain"
    /\ out' = [out EXCEPT !.blocks = [i \in 1..Len(out.blocks) |->
                  [out.blocks[i] EXCEPT !.translated =
                      [has |-> TRUE,
                       v |-> Replace(Replace(IF out.blocks[i].translated_marked.has
                                             THEN out.blocks[i].translated_marked.v
                                             ELSE <<>>,
                                             B_START, <<>>), B_END, <<>>)]]]]
    /\ pc' = "returned"
    /\ UNCHANGED <<inp, renderVars>>

BlocksNext ==
    \/ SkipEmptyBlock \/ AppendPayload \/ EndPayloads \/ TranslatorReturns \/ TranslatorRaises
    \/ ApplyItemStep \/ AssignTranslatedMarked \/ EndItems \/ SetTranslated

SpecBlocks == BlocksInit /\ [][BlocksNext]_vars

\* a block the first loop makes a payload of
HasPayload(b) == ~(Strip(b.text, SpaceCh) = <<>> /\ b.spans = <<>>)

RECURSIVE IsProcessed(_, _, _, _)
\* result is what the steps k.. of the loop over translated_list make of tr
\* with these runs
IsProcessed(k, tr, runs, result) ==
    IF k \notin ItemSteps THEN result = tr
    ELSE \E next \in {ItemStep(k, tr, runs)} : IsProcessed(k + 1, next, runs, result)

\* C18: the call of translate_chunks, raising or not, is followed by the
\* loop over the texts; when translate_chunks has raised and the call returns,
\* every block with a payload has the translated_marked the loop makes of
\* that block's own marked text with that block's own runs, every other
\* block has the translated_marked "", and every block has a translated that
\* is its translated_marked after tm.replace(B_START, "").replace(B_END, "")
C18_FallbackPerBlock ==
    /\ [](out.raised /\ pc = "returned" =>
            \A i \in 1..Len(inp.blocks) :
              LET b == out.blocks[i]
              IN  /\ b.translated_marked.has /\ b.translated.has
                  /\ IF HasPayload(inp.blocks[i])
                     THEN \E runs \in {_build_runs_from_block(inp.blocks[i])} :
                          \E marked \in {_runs_to_marked_text(runs)} :
                            IsProcessed(FirstItemStep(marked), marked, runs,
                                        b.translated_marked.v)
                     ELSE b.translated_marked.v = <<>>
                  /\ b.translated.v = Plain(b.translated_marked.v))
    /\ [][pc = "translate" => pc' = "items"]_vars

\* the translator has raised for three blocks: one without payload, then
\* two with different payloads, which end with different texts
C18_Witness ==
    /\ out.raised /\ pc = "returned" /\ Len(inp.blocks) = 3
    /\ ~HasPayload(inp.blocks[1])
    /\ Len(out.payloads) = 2 /\ out.payloads[1] # out.payloads[2]
    /\ out.blocks[2].translated_marked.v # out.blocks[3].translated_marked.v
    /\ out.blocks[2].translated_marked.v # <<>> /\ out.blocks[3].translated_marked.v # <<>>
    /\ out.blocks[1].translated.v = <<>>

(***************************************************************************)
(* Specification SpecProject: _project_style_runs_onto_text on a list of   *)
(* style runs and a target text.  The cuts are computed first, then the    *)
(* segments.                                                               *)
(***************************************************************************)
MaxStyleRuns == 3       \* most style runs

StyleRunTexts == { <<>>, <<"a">>, <<"a","b","c">>, <<"a","b"," ","c","d"," ","e">> }

TargetTexts == { <<>>, <<"x">>, <<"a","b"," ","c","d">>, <<"a","b","c","d","e","f","g","h">>, <<"a"," ","b"," ","c"," ","d"," ","e"," ","f">>, <<"a","b","\n","c","d"," ","e","f","g","h","i","j">> }

ProjectInit ==
    /\ pc = "runs"
    /\ inp \in [style_runs : UNION {[1..n -> [text : StyleRunTexts, bold : BOOLEAN]] :
                                      n \in 0..MaxStyleRuns},
                target_text : TargetTexts]
    /\ out = [cuts |-> <<>>, projected |-> <<>>]
    /\ RenderIdle

\* the three early returns: no target text, no run, one run
ReturnWithoutCuts ==
    /\ pc = "runs"
    /\ inp.target_text = <<>> \/ Len(inp.style_runs) <= 1
    /\ out' = [out EXCEPT !.projected =
                  _project_style_runs_onto_text(inp.style_runs, inp.target_text)]
    /\ pc' = "returned"
    /\ UNCHANGED <<inp, renderVars>>

\* the loop over weights[:-1]
ComputeCuts ==
    /\ pc = "runs"
    /\ inp.target_text # <<>> /\ Len(inp.style_runs) > 1
    /\ out' = [out EXCEPT !.cuts = ProjectCuts(inp.style_runs, inp.target_text, 1, 0, <<>>)]
    /\ pc' = "cuts"
    /\ UNCHANGED <<inp, renderVars>>

\* the loop over zip(style_runs, cuts + [text_len]) and the return
ProjectOntoText ==
    /\ pc = "cuts"
    /\ \E projected \in {ProjectSegments(inp.style_runs, inp.target_text,
                                         Append(out.cuts, Len(inp.target_text)), 1, <<>>)} :
         out' = [out EXCEPT !.projected =
                    IF projected # <<>> THEN projected
                    ELSE << [text |-> inp.target_text, bold |-> FALSE] >>]
    /\ pc' = "returned"
    /\ UNCHANGED <<inp, renderVars>>

ProjectNext == ReturnWithoutCuts \/ ComputeCuts \/ ProjectOntoText

SpecProject == ProjectInit /\ [][ProjectNext]_vars

\* C21: the cuts are offsets into the target text that never decrease, and
\* for a non-empty target text the returned segments, joined in order, are
\* the target text, none of them is empty and no two neighbours have the
\* same bold flag
C21_SegmentsCoverTarget ==
    /\ pc \in {"cuts", "returned"} =>
         /\ \A x \in 1..Len(out.cuts) :
              /\ 0 <= out.cuts[x] /\ out.cuts[x] <= Len(inp.target_text)
              /\ x > 1 => out.cuts[x - 1] <= out.cuts[x]
         /\ out.cuts # <<>> => Len(out.cuts) = Len(inp.style_runs) - 1
    /\ (pc = "returned" /\ inp.target_text # <<>>) =>
         /\ Flat([x \in 1..Len(out.projected) |-> out.projected[x].text]) = inp.target_text
         /\ \A x \in 1..Len(out.projected) : out.projected[x].text # <<>>
         /\ \A x \in 1..(Len(out.projected) - 1) :
              out.projected[x].bold # out.projected[x + 1].bold

\* three runs, the first two bold, were cut at two different places and
\* came back as two segments
C21_Witness ==
    /\ pc = "returned" /\ Len(inp.style_runs) = 3
    /\ inp.style_runs[1].bold /\ inp.style_runs[2].bold /\ ~inp.style_runs[3].bold
    /\ Len(out.cuts) = 2 /\ 0 < out.cuts[1] /\ out.cuts[1] < out.cuts[2]
    /\ out.cuts[2] < Len(inp.target_text)
    /\ Len(out.projected) = 2 /\ out.projected[1].bold

(***************************************************************************)
(* Specification SpecCastling: _normalize_castling_and_times on a castling *)
(* token of two or three symbols, each the digit 0 or the letter O, with   *)
(* text before and after it.                                               *)
(***************************************************************************)
CastlingSymbols == UNION {[1..n -> {"0", "O"}] : n \in 2..3}

TextsBefore == { <<>>, <<"1","2",".">>, <<"e","4"," ">>, <<"×">> }

TextsAfter == { <<>>, <<"+">>, <<" ","e","5">>, <<"!">> }

\* the symbols joined by hyphens
Hyphenated(symbols) ==
    Flat([x \in 1..Len(symbols) |-> IF x = 1 THEN <<symbols[x]>> ELSE <<"-", symbols[x]>>])

CastlingInit ==
    /\ pc = "token"
    /\ inp \in [symbols : CastlingSymbols, before : TextsBefore, after : TextsAfter]
    /\ out = <<>>
    /\ RenderIdle

\* s = _normalize_castling_and_times(s)
NormalizeCastling ==
    /\ pc = "token"
    /\ out' = _normalize_castling_and_times(inp.before \o Hyphenated(inp.symbols) \o inp.after)
    /\ pc' = "normalized"
    /\ UNCHANGED <<inp, renderVars>>

CastlingNext == NormalizeCastling

SpecCastling == CastlingInit /\ [][CastlingNext]_vars

\* C22: the token comes back with the letter O for each of its symbols,
\* as many as it had, between the text before it (its times sign now an x)
\* and the text after it
C22_CastlingAllLetters ==
    pc = "normalized" =>
        out = (IF inp.before = <<"×">> THEN <<"x">> ELSE inp.before)
              \o Hyphenated([x \in 1..Len(inp.symbols) |-> "O"]) \o inp.after

\* the token 0-O-0, which none of the first three replacements finds, is
\* O-O-O after a move number
C22_Witness ==
    /\ pc = "normalized" /\ inp.symbols = <<"0", "O", "0">> /\ inp.before = <<"1","2",".">>
    /\ inp.after = <<>> /\ out = <<"1","2",".","O","-","O","-","O">>

\* C23: the text postprocess_translated_marked returns holds no two
\* spaces in a row
C23_NoDoubleSpace ==
    pc \in {"once", "twice"} => ~Contains(out.once, <<" ", " ">>)

(***************************************************************************)
(* Specification SpecBuildRuns: _build_runs_from_block on one block whose  *)
(* three sources of style spans are each absent, empty or filled.          *)
(***************************************************************************)
SourceLists ==
    { <<>>,
      << [text |-> <<"1",".","e","4"," ","i","s"," ","g","o","o","d">>, is_bold |-> TRUE] >>,
      << [text |-> <<"1",".">>, is_bold |-> TRUE], [text |-> <<" ","e","4"," ","o","k">>, is_bold |-> FALSE] >>,
      << [text |-> <<"a","b","c">>, is_bold |-> FALSE] >>,
      << [text |-> <<>>, is_bold |-> TRUE] >> }

BlockTexts == { <<>>, <<"1",".","e","4"," ","i","s"," ","g","o","o","d">>, <<"1","."," ","e","4"," ","o","k">>, <<"x"," ","y">> }

BuildRunsInit ==
    /\ pc = "block"
    /\ inp \in [text : BlockTexts, spans : SourceLists,
                _style_spans_backup : SourceLists, _ocr_spans_backup : SourceLists]
    /\ out = <<>>
    /\ RenderIdle

\* runs = _build_runs_from_block(block)
BuildRuns ==
    /\ pc = "block"
    /\ out' = _build_runs_from_block(inp)
    /\ pc' = "built"
    /\ UNCHANGED <<inp, renderVars>>

BuildRunsNext == BuildRuns

SpecBuildRuns == BuildRunsInit /\ [][BuildRunsNext]_vars

\* the block with none of its sources but the one given, held as spans
OnlySource(block, source) ==
    [text |-> block.text, spans |-> source,
     _style_spans_backup |-> <<>>, _ocr_spans_backup |-> <<>>]

\* C24: a block with no style backup, no OCR backup and no spans gives one
\* non-bold run holding its whole text, or no run when the text is empty;
\* otherwise the runs are those of the first non-empty source in the order
\* _style_spans_backup, _ocr_spans_backup, spans, whatever the later
\* sources hold
C24_FirstAvailableSource ==
    pc = "built" =>
        /\ (inp._style_spans_backup = <<>> /\ inp._ocr_spans_backup = <<>> /\ inp.spans = <<>>) =>
              out = IF inp.text = <<>> THEN <<>>
                    ELSE << [text |-> inp.text, bold |-> FALSE] >>
        /\ inp._style_spans_backup # <<>> =>
              out = _build_runs_from_block(OnlySource(inp, inp._style_spans_backup))
        /\ (inp._style_spans_backup = <<>> /\ inp._ocr_spans_backup # <<>>) =>
              out = _build_runs_from_block(OnlySource(inp, inp._ocr_spans_backup))
        /\ (inp._style_spans_backup = <<>> /\ inp._ocr_spans_backup = <<>>) =>
              out = _build_runs_from_block(OnlySource(inp, inp.spans))

C24_Witness ==
    /\ pc = "built"
    /\ inp._style_spans_backup # <<>>
    /\ inp._ocr_spans_backup # <<>>
    /\ inp.spans # <<>>
    /\ out # _build_runs_from_block(OnlySource(inp, inp._ocr_spans_backup))
    /\ out # _build_runs_from_block(OnlySource(inp, inp.spans))

\* C25: no bold run built for a block starts with a move-number opener and
\* runs on past its last notation token into prose
C25_BoldEndsAtNotation ==
    pc = "built" =>
        \A x \in 1..Len(out) :
            (out[x].bold /\ MatchAt(_MOVE_START_RE, out[x].text, 0).st # -1) =>
                \E end \in {_find_notation_prefix_end(out[x].text)} :
                    end <= 0 \/ end >= Len(out[x].text)

\* C26: every segment list parse_marked_segments returns is in normal form:
\* no segment has an empty text and no two adjacent segments have the same
\* bold flag
C26_SegmentsNormalForm ==
    pc = "decoded" =>
        /\ \A x \in 1..Len(out.segs) : out.segs[x].text # <<>>
        /\ \A x \in 1..(Len(out.segs) - 1) : out.segs[x].bold # out.segs[x + 1].bold

\* the scan meets a regular, an empty bold and a regular segment; the empty
\* one is dropped and its neighbours are joined
C26_Witness ==
    /\ pc = "decoded" /\ inp.src = "text"
    /\ out.marked = <<"a","[","[","B","]","]","[","[","/","B","]","]"," ","b">>
    /\ ScanSegments(out.marked, 0) =
          << [text |-> <<"a">>, bold |-> FALSE], [text |-> <<>>, bold |-> TRUE],
             [text |-> <<" ","b">>, bold |-> FALSE] >>
    /\ out.segs = << [text |-> <<"a"," ","b">>, bold |-> FALSE] >>

\* C27: every line render_marked_segments emits, the last one included, has
\* its baseline at most two line heights past the rectangle bottom; and
\* when the loop over the segments ends with a pending line whose baseline
\* is within that limit, that line is emitted
C27_BaselineWithinLimit ==
    /\ [](\A l \in 1..Len(page) : page[l].y <= inp.rect.y1 + line_height * 2)
    /\ [][(pc = "loop" /\ pc' = "done" /\ out'.status = "finished"
             /\ line_runs # <<>> /\ y <= inp.rect.y1 + line_height * 2)
          => (page' = Append(page, [runs |-> line_runs, y |-> y]) /\ line_runs' = <<>>)]_vars

\* a word was dropped for want of room, and the pending line was still
\* emitted at the end, more than one line height past the bottom
C27_Witness ==
    /\ pc = "done" /\ out.status = "finished"
    /\ out.dropped # <<>>
    /\ Len(page) = 2 /\ line_runs = <<>>
    /\ page[2].y > inp.rect.y1 + line_height
    /\ page[2].y <= inp.rect.y1 + line_height * 2

(***************************************************************************)
(* vision_corrections.py: the batch loop of VisionCorrectionService        *)
(* .correct_page and of ClaudeVisionService._process_candidates_sync.  The *)
(* two loops differ in what a successful call does with its batch, not in  *)
(* remaining, current_batch_size and rate_attempts.                        *)
(***************************************************************************)
MaxBatchSize  == 4      \* largest self.max_batch
MaxCandidates == 4      \* longest list of candidates to query

\* min(self.max_batch, len(remaining)) or 0
BatchSizeFor(remaining) == Min(inp.max_batch, Len(remaining))

\* remaining[:current_batch_size]
Batch == Slice(out.remaining, 0, Min(out.current_batch_size, Len(out.remaining)))

\* the halving of the batch size without its floor of one
HalvedBatchSize_noFloor(current_batch_size) == current_batch_size \div 2

\* max(1, current_batch_size // 2)
HalvedBatchSize(current_batch_size) == Max(1, current_batch_size \div 2)

\* del remaining[:len(batch)], then rate_attempts = 0 and the batch size
\* taken anew; removed records the candidates deleted, in order
BatchDropped(outcome) ==
    \E rest \in {Slice(out.remaining, Len(Batch), Len(out.remaining))} :
        out' = [remaining |-> rest,
                current_batch_size |-> BatchSizeFor(rest),
                rate_attempts |-> 0,
                removed |-> out.removed \o Batch,
                outcome |-> outcome]

BatchInit ==
    /\ pc = "call"
    /\ inp \in [service : {"openai", "claude"},
                max_batch : 1..MaxBatchSize,
                candidates : {[x \in 1..n |-> x] : n \in 0..MaxCandidates}]
    /\ out = [remaining |-> <<>>, current_batch_size |-> 0, rate_attempts |-> 0,
              removed |-> <<>>, outcome |-> "none"]
    /\ RenderIdle

\* remaining = list(to_query); current_batch_size = ...; rate_attempts = 0
StartBatches ==
    /\ pc = "call"
    /\ out' = [out EXCEPT !.remaining = inp.candidates,
                          !.current_batch_size = BatchSizeFor(inp.candidates),
                          !.rate_attempts = 0]
    /\ pc' = "loop"
    /\ UNCHANGED <<inp, renderVars>>

\* the body of the try block runs to its end
BatchSucceeds ==
    /\ pc = "loop" /\ out.remaining # <<>> /\ out.current_batch_size > 0
    /\ BatchDropped("success")
    /\ UNCHANGED <<pc, inp, renderVars>>

\* except Exception with _is_rate_limit_error(exc)
BatchRateLimited ==
    /\ pc = "loop" /\ out.remaining # <<>> /\ out.current_batch_size > 0
    /\ IF out.rate_attempts + 1 >= 5
       THEN BatchDropped("rate_limit")
       ELSE out' = [out EXCEPT !.rate_attempts = @ + 1,
                               !.current_batch_size = HalvedBatchSize(@),
                               !.outcome = "rate_limit"]
    /\ UNCHANGED <<pc, inp, renderVars>>

\* except Exception with any other error
BatchFails ==
    /\ pc = "loop" /\ out.remaining # <<>> /\ out.current_batch_size > 0
    /\ BatchDropped("error")
    /\ UNCHANGED <<pc, inp, renderVars>>

\* while remaining and current_batch_size > 0: the test fails
BatchLoopExits ==
    /\ pc = "loop" /\ ~(out.remaining # <<>> /\ out.current_batch_size > 0)
    /\ pc' = "done"
    /\ UNCHANGED <<inp, out, renderVars>>

BatchNext ==
    \/ StartBatches
    \/ BatchSucceeds
    \/ BatchRateLimited
    \/ BatchFails
    \/ BatchLoopExits

SpecBatch == BatchInit /\ [][BatchNext]_vars

\* what is left to do: five attempts for each pending candidate, less the
\* attempts spent on the current batch, and the exit of the loop
BatchVariant ==
    5 * Len(out.remaining) - out.rate_attempts + (IF pc = "loop" THEN 1 ELSE 0)

RECURSIVE RenderedLines(_, _, _, _, _, _, _, _)
\* render_marked_segments as a function of one call c (rect, regular_size,
\* bold_size) with the rectangle's top at 0, from token k on: pending tells
\* whether line_runs holds text, cur is curw, yy the baseline, n the number
\* of lines inserted so far, cut whether text was given up; the result is
\* the number of lines inserted and whether any text was not inserted
RenderedLines(toks, k, pending, cur, yy, n, cut, c) ==
    LET lh       == Max(c.regular_size, c.bold_size) * 118
        no_room  == yy + lh > c.rect.height + lh * 2
        size     == IF toks[k].bold THEN c.bold_size ELSE c.regular_size
        add_w    == text_width_fitz((IF pending THEN <<" ">> ELSE <<>>) \o toks[k].text, size)
    IN  IF k > Len(toks)
        THEN IF pending /\ yy <= c.rect.height + lh * 2
             THEN [lines |-> n + 1, truncated |-> cut]
             ELSE [lines |-> n, truncated |-> cut \/ pending]
        ELSE IF toks[k].brk
        THEN IF no_room THEN [lines |-> n, truncated |-> TRUE]
             ELSE IF pending
                  THEN RenderedLines(toks, k + 1, FALSE, 0, yy + lh, n + 1, cut, c)
                  ELSE RenderedLines(toks, k + 1, FALSE, 0, yy, n, cut, c)
        ELSE IF cur > 0 /\ cur + add_w > c.rect.width
        THEN IF no_room
             THEN RenderedLines(toks, k + 1, pending, cur, yy, n, TRUE, c)
             ELSE RenderedLines(toks, k + 1, TRUE, text_width_fitz(toks[k].text, size),
                                yy + lh, n + 1, cut, c)
        ELSE RenderedLines(toks, k + 1, TRUE, cur + add_w, yy, n, cut, c)

\* what the call c of render_marked_segments inserts
Rendered(c) ==
    IF c.segments = <<>> THEN [lines |-> 0, truncated |-> FALSE]
    ELSE RenderedLines(Tokens(c.segments), 1, FALSE, 0,
                       Max(c.regular_size, c.bold_size) * 100, 0, FALSE, c)

\* the line count of _measure_height_dual for the segments of the l-th
\* valid block at the sizes of the page
MeasuredLines(l) ==
    MeasureLines(Tokens(out.valid_blocks[l].segments), 1, 0, 1,
                 out.valid_blocks[l].work_rect.width,
                 out.final_regular_size, out.final_bold_size)

\* C29: every block is rendered with the segments it was measured with, in
\* no more lines than _measure_height_dual counted for it at the sizes of
\* the page, and without truncation when that measure fits the height of
\* its rectangle
C29_RenderedAsMeasured ==
    \A l \in 1..Len(page) :
        \E r \in {Rendered(page[l])} : \E m \in {MeasuredLines(l)} :
            /\ page[l].segments = out.valid_blocks[l].segments
            /\ r.lines <= m
            /\ m * (Max(out.final_regular_size, out.final_bold_size) * 118)
                   <= page[l].rect.height => ~r.truncated

(***************************************************************************)
(* Specification SpecReapply: _reapply_bold_markers on translated texts    *)
(* that hold a novelty mark after a bold span and pieces of delimiters     *)
(* that the removal of a delimiter joins into a new one.                   *)
(***************************************************************************)
MaxReapplyPieces == 4   \* longest translated text, in pieces

ReapplyTexts ==
    UNION {{Flat(ps) : ps \in [1..n -> { B_START, B_END, <<"1","6",".">>, <<" ">>, <<"N">>, <<" ","t","o",".">>,
                                          <<"[","[","B">>, <<"]","]">> }]}
           : n \in 0..MaxReapplyPieces}

ReapplyInit ==
    /\ pc = "translated"
    /\ inp \in [runs : RecRuns, text : ReapplyTexts]
    /\ out = [marked |-> <<>>, segs |-> <<>>]
    /\ RenderIdle

ReapplyNext == Reapply

SpecReapply == ReapplyInit /\ [][ReapplyNext]_vars

RECURSIVE Unmarked(_)
\* text with its delimiters removed until none is left
Unmarked(text) == IF Plain(text) = text THEN text ELSE Unmarked(Plain(text))

\* the characters of text that are not whitespace, in order
NonSpace(text) == SelectSeq(text, LAMBDA c : c \notin SpaceCh)

====
